---- MODULE Spec2Model ----
(***************************************************************************)
(* Model of the CRIC-V delivery analysis pipeline                          *)
(* (app/services/bowling_analyzer.py, batting_analyzer.py,                 *)
(* ball_detector.py, advanced_ball_detector.py, pose_service.py,           *)
(* app/analytics/pitch_mapping.py).                                        *)
(*                                                                         *)
(* Fixed-point conventions (the source computes in floats):                *)
(*   angles            : centi-degrees   (15 degrees  = 1500)              *)
(*   speeds, scores    : tenths          (43.2 km/h   = 432)               *)
(*   pixel coordinates : hundredths      (40 px       = 4000)              *)
(*   normalized coords : hundredths      (0.95        = 95)                *)
(* Python dicts are functions whose DOMAIN is the set of keys present.     *)
(***************************************************************************)
EXTENDS Integers, Sequences, FiniteSets, TLC

VARIABLES
    pc,                \* position of the running call
    pose_data,         \* what pose_detector.process_video returns
    video_detections,  \* what the detector adapter yields for the video
    ball_detections,   \* analyze_bowling_action local
    ball_trajectory,   \* analyze_bowling_action local / calculate_ball_speed argument
    ball_speed,
    ball_spin,
    ball_type,
    bowling_arm,
    metrics,
    swing_type,
    violations,
    raised,            \* TRUE once an exception escaped the running call
    performance_score,
    recommendations,
    report,
    delivery,          \* _save_delivery_to_db: line and length of the pitch landing point
    scores,            \* the get_line_length_score calls made so far, with their results
    deliveries,        \* the rows of the deliveries table
    savers,            \* the _save_delivery_to_db calls in progress
    phases,            \* what detect_batting_phases returned
    probability,       \* what wicket_probability returned, in thousandths
    sessions,          \* sessions table: id -> status
    analyses,          \* the rows of the analyses table
    runs               \* the background processing runs and where each one is

\* the state outside analyze_bowling_action
\* the state of the insights and of the background processing
task_vars == <<phases, probability, sessions, analyses, runs>>

save_vars == <<delivery, scores, deliveries, savers, task_vars>>

vars == <<pc, pose_data, video_detections, ball_detections, ball_trajectory,
          ball_speed, ball_spin, ball_type, bowling_arm, metrics, swing_type,
          violations, raised, performance_score, recommendations, report,
          delivery, scores, deliveries, savers,
          phases, probability, sessions, analyses, runs>>

----------------------------------------------------------------------------
(* Python values *)

\* The value None. Numbers of the model are never this small.
None == 0 - 1000000

EmptyDict == [k \in {} |-> 0]

\* dict.get(k, default)
Get(d, k, default) == IF k \in DOMAIN d THEN d[k] ELSE default

\* dict.get(k): None when the key is missing
GetOrNone(d, k) == IF k \in DOMAIN d THEN d[k] ELSE None

\* a one-key dict when present, else the empty dict
OptKey(k, present, v) == IF present THEN (k :> v) ELSE EmptyDict

Min2(a, b) == IF a < b THEN a ELSE b
Max2(a, b) == IF a > b THEN a ELSE b
Abs(a) == IF a < 0 THEN 0 - a ELSE a

\* round(num / den) to the nearest integer, ties to even (Python's round);
\* num >= 0, den > 0
RoundDiv(num, den) ==
    LET q == num \div den
        r == num % den
    IN  IF 2 * r < den THEN q
        ELSE IF 2 * r > den THEN q + 1
        ELSE IF q % 2 = 0 THEN q ELSE q + 1

----------------------------------------------------------------------------
(* BowlingAnalyzer: ICC compliance and coaching recommendations *)

\* self.ICC_ELBOW_EXTENSION_LIMIT = 15 degrees
ICC_ELBOW_EXTENSION_LIMIT == 1500

RuleIllegal == "Law 21.3 - Illegal Bowling Action"
RuleWarning == "Law 21.3 - Warning"
RuleNoBall  == "Law 24.5 - No Ball"

\* f"{elbow_extension:.1f}": the value in tenths of a degree
Fmt1(e) == IF e < 0 THEN 0 - RoundDiv(0 - e, 10) ELSE RoundDiv(e, 10)

\* check_icc_compliance. The result carries the violation list and whether the
\* call raised: None reaching the comparison with the limit is a TypeError.

\* check_icc_compliance reading metrics.get("elbow_extension") with no default
CheckIccCompliance_NoDefault(m) ==
    LET elbow_extension == GetOrNone(m, "elbow_extension")
        elbow ==
            IF elbow_extension > ICC_ELBOW_EXTENSION_LIMIT
            THEN << [rule |-> RuleIllegal, detail |-> Fmt1(elbow_extension), severity |-> "high"] >>
            ELSE IF elbow_extension * 10 > ICC_ELBOW_EXTENSION_LIMIT * 8
            THEN << [rule |-> RuleWarning, detail |-> Fmt1(elbow_extension), severity |-> "medium"] >>
            ELSE << >>
        front_foot == Get(m, "front_foot_landing", EmptyDict)
        foot ==
            IF Get(front_foot, "is_no_ball", FALSE)
            THEN << [rule |-> RuleNoBall, detail |-> 0, severity |-> "medium"] >>
            ELSE << >>
    IN  IF elbow_extension = None
        THEN [raised |-> TRUE, violations |-> << >>]
        ELSE [raised |-> FALSE, violations |-> elbow \o foot]

\* check_icc_compliance with >= in place of > on the limit
CheckIccCompliance_Geq(m) ==
    LET elbow_extension == Get(m, "elbow_extension", 0)
        elbow ==
            IF elbow_extension >= ICC_ELBOW_EXTENSION_LIMIT
            THEN << [rule |-> RuleIllegal, detail |-> Fmt1(elbow_extension), severity |-> "high"] >>
            ELSE IF elbow_extension * 10 > ICC_ELBOW_EXTENSION_LIMIT * 8
            THEN << [rule |-> RuleWarning, detail |-> Fmt1(elbow_extension), severity |-> "medium"] >>
            ELSE << >>
        front_foot == Get(m, "front_foot_landing", EmptyDict)
        foot ==
            IF Get(front_foot, "is_no_ball", FALSE)
            THEN << [rule |-> RuleNoBall, detail |-> 0, severity |-> "medium"] >>
            ELSE << >>
    IN  IF elbow_extension = None
        THEN [raised |-> TRUE, violations |-> << >>]
        ELSE [raised |-> FALSE, violations |-> elbow \o foot]

\* check_icc_compliance with the warning band as an independent if (not elif)
CheckIccCompliance_NoElif(m) ==
    LET elbow_extension == Get(m, "elbow_extension", 0)
        high ==
            IF elbow_extension > ICC_ELBOW_EXTENSION_LIMIT
            THEN << [rule |-> RuleIllegal, detail |-> Fmt1(elbow_extension), severity |-> "high"] >>
            ELSE << >>
        warn ==
            IF elbow_extension * 10 > ICC_ELBOW_EXTENSION_LIMIT * 8
            THEN << [rule |-> RuleWarning, detail |-> Fmt1(elbow_extension), severity |-> "medium"] >>
            ELSE << >>
        front_foot == Get(m, "front_foot_landing", EmptyDict)
        foot ==
            IF Get(front_foot, "is_no_ball", FALSE)
            THEN << [rule |-> RuleNoBall, detail |-> 0, severity |-> "medium"] >>
            ELSE << >>
    IN  IF elbow_extension = None
        THEN [raised |-> TRUE, violations |-> << >>]
        ELSE [raised |-> FALSE, violations |-> high \o warn \o foot]

\* check_icc_compliance with the front-foot rule appended before the elbow rule
CheckIccCompliance_FootFirst(m) ==
    LET elbow_extension == Get(m, "elbow_extension", 0)
        elbow ==
            IF elbow_extension > ICC_ELBOW_EXTENSION_LIMIT
            THEN << [rule |-> RuleIllegal, detail |-> Fmt1(elbow_extension), severity |-> "high"] >>
            ELSE IF elbow_extension * 10 > ICC_ELBOW_EXTENSION_LIMIT * 8
            THEN << [rule |-> RuleWarning, detail |-> Fmt1(elbow_extension), severity |-> "medium"] >>
            ELSE << >>
        front_foot == Get(m, "front_foot_landing", EmptyDict)
        foot ==
            IF Get(front_foot, "is_no_ball", FALSE)
            THEN << [rule |-> RuleNoBall, detail |-> 0, severity |-> "medium"] >>
            ELSE << >>
    IN  IF elbow_extension = None
        THEN [raised |-> TRUE, violations |-> << >>]
        ELSE [raised |-> FALSE, violations |-> foot \o elbow]

CheckIccCompliance(m) ==
    LET elbow_extension == Get(m, "elbow_extension", 0)
        elbow ==
            IF elbow_extension > ICC_ELBOW_EXTENSION_LIMIT
            THEN << [rule |-> RuleIllegal, detail |-> Fmt1(elbow_extension), severity |-> "high"] >>
            ELSE IF elbow_extension * 10 > ICC_ELBOW_EXTENSION_LIMIT * 8
            THEN << [rule |-> RuleWarning, detail |-> Fmt1(elbow_extension), severity |-> "medium"] >>
            ELSE << >>
        front_foot == Get(m, "front_foot_landing", EmptyDict)
        foot ==
            IF Get(front_foot, "is_no_ball", FALSE)
            THEN << [rule |-> RuleNoBall, detail |-> 0, severity |-> "medium"] >>
            ELSE << >>
    IN  IF elbow_extension = None
        THEN [raised |-> TRUE, violations |-> << >>]
        ELSE [raised |-> FALSE, violations |-> elbow \o foot]

RecStraighterArm == "Work on maintaining a straighter arm through delivery"
RecBrace         == "Practice with a brace to limit elbow flexion"
RecExcellentElbow == "Excellent elbow extension - within legal limits"
RecFrontFoot     == "Front foot landing needs adjustment to avoid no-balls"
RecToeBehind     == "Practice landing with toe behind the crease line"
RecInSwing       == "In-swing detected - maintain upright seam position"
RecOutSwing      == "Out-swing detected - work on late swing"
RecCompliant     == "Action is ICC compliant - focus on consistency"
RecMorePace      == "Work on generating more pace through hip drive"
RecExcellentPace == "Excellent pace - focus on accuracy"

\* the statements of each rule of generate_coaching_recommendations
RecElbow(m) ==
    LET elbow_ext == Get(m, "elbow_extension", 0)
    IN  IF elbow_ext > 1200 THEN << RecStraighterArm, RecBrace >>
        ELSE IF elbow_ext < 500 THEN << RecExcellentElbow >>
        ELSE << >>

RecFoot(m) ==
    IF Get(Get(m, "front_foot_landing", EmptyDict), "is_no_ball", FALSE)
    THEN << RecFrontFoot, RecToeBehind >>
    ELSE << >>

RecSwing(m) ==
    LET st == Get(m, "swing_type", "")
    IN  IF st = "in_swing" THEN << RecInSwing >>
        ELSE IF st = "out_swing" THEN << RecOutSwing >>
        ELSE << >>

RecGeneral(v) == IF Len(v) = 0 THEN << RecCompliant >> ELSE << >>

RecSpeed(m) ==
    LET speed == Get(m, "estimated_speed", 0)
    IN  IF speed > 0
        THEN IF speed < 1200 THEN << RecMorePace >>
             ELSE IF speed > 1400 THEN << RecExcellentPace >>
             ELSE << >>
        ELSE << >>

\* generate_coaching_recommendations without the generic statement
GenerateCoachingRecommendations_NoGeneric(m, v) ==
    RecElbow(m) \o RecFoot(m) \o RecSwing(m) \o RecSpeed(m)

\* generate_coaching_recommendations with a third statement in the elbow band
GenerateCoachingRecommendations_Extra(m, v) ==
    RecElbow(m) \o (IF Len(RecElbow(m)) = 2 THEN << RecBrace >> ELSE << >>)
    \o RecFoot(m) \o RecSwing(m) \o RecGeneral(v) \o RecSpeed(m)

GenerateCoachingRecommendations(m, v) ==
    RecElbow(m) \o RecFoot(m) \o RecSwing(m) \o RecGeneral(v) \o RecSpeed(m)

----------------------------------------------------------------------------
(* BallDetector / AdvancedBallDetector *)

\* AdvancedBallDetector.__init__ defaults: fps = 30.0, pixels_per_meter = 100.0
FPS == 30
PIXELS_PER_METER == 100

RECURSIVE ISqrtIn(_, _, _)
ISqrtIn(n, lo, hi) ==
    IF lo >= hi THEN lo
    ELSE LET mid == (lo + hi + 1) \div 2
         IN  IF mid * mid <= n THEN ISqrtIn(n, mid, hi) ELSE ISqrtIn(n, lo, mid - 1)

\* floor of the square root, 0 <= n < 2^31
ISqrt(n) == ISqrtIn(n, 0, 46340)

\* np.sqrt(dx ** 2 + dy ** 2) between two points, in hundredths
Dist(p, q) == ISqrt((q.x - p.x) * (q.x - p.x) + (q.y - p.y) * (q.y - p.y))

RECURSIVE SumDist(_, _)
\* sum of the displacements points[i-1] -> points[i] for i = 2..k
SumDist(points, k) ==
    IF k < 2 THEN 0 ELSE SumDist(points, k - 1) + Dist(points[k - 1], points[k])

RECURSIVE SortedSeq(_)
\* sorted(S) for a finite set of integers
SortedSeq(S) ==
    IF S = {} THEN << >>
    ELSE LET m == CHOOSE x \in S : \A y \in S : x <= y
         IN  << m >> \o SortedSeq(S \ {m})

\* the first index of S minimising the function val (Python's min(..., key=...))
FirstMin(S, val) ==
    CHOOSE i \in S : \A j \in S : val[i] < val[j] \/ (val[i] = val[j] /\ i <= j)

\* the first index of S maximising the function val (Python's max(..., key=...))
FirstMax(S, val) ==
    CHOOSE i \in S : \A j \in S : val[i] > val[j] \/ (val[i] = val[j] /\ i <= j)

\* centre of a bounding box <<x1, y1, x2, y2>>
CenterX(bbox) == (bbox[1] + bbox[3]) \div 2
CenterY(bbox) == (bbox[2] + bbox[4]) \div 2

\* the trajectory point taken from the first detection of the frame
TrajectoryPointOf_First(detections, frame_num) ==
    LET idx  == {i \in DOMAIN detections : detections[i].frame = frame_num}
        best_det == detections[CHOOSE i \in idx : \A j \in idx : i <= j]
    IN  [frame |-> frame_num,
         x |-> CenterX(best_det.bbox),
         y |-> CenterY(best_det.bbox),
         confidence |-> best_det.confidence]

\* one trajectory point per frame with a detection: the most confident one
TrajectoryPointOf(detections, frame_num) ==
    LET idx  == {i \in DOMAIN detections : detections[i].frame = frame_num}
        conf == [i \in idx |-> detections[i].confidence]
        best_det == detections[FirstMax(idx, conf)]
    IN  [frame |-> frame_num,
         x |-> CenterX(best_det.bbox),
         y |-> CenterY(best_det.bbox),
         confidence |-> best_det.confidence]

\* BallDetector.track_ball_trajectory on the detections of the video
TrackBallTrajectory(detections) ==
    LET frame_nums == SortedSeq({detections[i].frame : i \in DOMAIN detections})
        trajectory == [k \in DOMAIN frame_nums |->
                          TrajectoryPointOf(detections, frame_nums[k])]
        n == Len(trajectory)
        avg_speed == IF n > 1 THEN SumDist(trajectory, n) \div (n - 1) ELSE 0
    IN  [trajectory |-> trajectory,
         avg_speed |-> avg_speed,
         total_frames_with_ball |-> n]

\* None passed where a trajectory dict is expected
NoneDict == [k \in {"None"} |-> TRUE]

\* Python truth value of a dict argument
Falsy(d) == d = NoneDict \/ DOMAIN d = {}

\* ball_trajectory.get("trajectory") or ball_trajectory.get("points_2d") or []
PointsOf(traj) ==
    LET a == Get(traj, "trajectory", << >>)
        b == Get(traj, "points_2d", << >>)
    IN  IF Len(a) > 0 THEN a ELSE IF Len(b) > 0 THEN b ELSE << >>

\* calculate_ball_speed measuring each point's distance from the first point
CalculateBallSpeed_FromOrigin(traj) ==
    IF Falsy(traj) THEN 0
    ELSE LET points == PointsOf(traj)
             n == Len(points)
         IN  IF n < 2 THEN 0
             ELSE RoundDiv((SumDist(points, n) + Dist([x |-> 0, y |-> 0], points[1]))
                               * FPS * 36,
                           (n - 1) * PIXELS_PER_METER * 100)

\* AdvancedBallDetector.calculate_ball_speed, km/h in tenths
CalculateBallSpeed(traj) ==
    IF Falsy(traj) THEN 0
    ELSE LET points == PointsOf(traj)
             n == Len(points)
         IN  IF n < 2 THEN 0
             ELSE RoundDiv(SumDist(points, n) * FPS * 36,
                           (n - 1) * PIXELS_PER_METER * 100)

Sign(v) == IF v > 0 THEN 1 ELSE IF v < 0 THEN 0 - 1 ELSE 0

\* calculate_spin_rate counting a whole revolution per crossing
CalculateSpinRate_WholeRevolutions(detections) ==
    LET n == Len(detections)
        cx(i) == CenterX(detections[i].bbox)
        cy(i) == CenterY(detections[i].bbox)
        dirx == cx(n) - cx(1)
        diry == cy(n) - cy(1)
        lateral(i) == (0 - (cx(i) - cx(1))) * diry + (cy(i) - cy(1)) * dirx
        zero_crossings ==
            Cardinality({i \in 1..(n - 1) : Sign(lateral(i + 1)) # Sign(lateral(i))})
    IN  IF n < 5 THEN 0
        ELSE IF dirx = 0 /\ diry = 0 THEN 0
        ELSE RoundDiv(zero_crossings * 60 * FPS * 10, n)

\* AdvancedBallDetector.calculate_spin_rate, rpm in tenths. The sign of a
\* lateral deviation does not depend on the normalisation of the direction.
CalculateSpinRate(detections) ==
    LET n == Len(detections)
        cx(i) == CenterX(detections[i].bbox)
        cy(i) == CenterY(detections[i].bbox)
        dirx == cx(n) - cx(1)
        diry == cy(n) - cy(1)
        lateral(i) == (0 - (cx(i) - cx(1))) * diry + (cy(i) - cy(1)) * dirx
        zero_crossings ==
            Cardinality({i \in 1..(n - 1) : Sign(lateral(i + 1)) # Sign(lateral(i))})
    IN  IF n < 5 THEN 0
        ELSE IF dirx = 0 /\ diry = 0 THEN 0
        ELSE RoundDiv(zero_crossings * 30 * FPS * 10, n)

NoBallType == [is_yorker |-> FALSE, is_bouncer |-> FALSE, is_full_toss |-> FALSE]

\* min(heights) over points[5:]
MinHeightAfterSkip(points) ==
    LET S == 6..Len(points)
        h == [i \in S |-> points[i].y]
    IN  points[FirstMin(S, h)].y

\* the thresholds of classify_ball_type on the minimum height
BallTypeOfHeight(min_height) ==
    IF min_height < 20 THEN [NoBallType EXCEPT !.is_yorker = TRUE]
    ELSE IF min_height > 80 THEN [NoBallType EXCEPT !.is_bouncer = TRUE]
    ELSE IF min_height > 40 THEN [NoBallType EXCEPT !.is_full_toss = TRUE]
    ELSE NoBallType

\* BowlingAnalyzer.classify_ball_type: reads the "points_2d" key only
ClassifyBallType(trajectory, speed) ==
    IF Falsy(trajectory) \/ "points_2d" \notin DOMAIN trajectory THEN NoBallType
    ELSE LET points == Get(trajectory, "points_2d", << >>)
         IN  IF Len(points) < 10 THEN NoBallType
             ELSE BallTypeOfHeight(MinHeightAfterSkip(points))

----------------------------------------------------------------------------
(* Pose frames and the pose-based extractors of BowlingAnalyzer *)

\* A frame of pose_data["frames"]: nlm landmarks (33 from MediaPipe, 0 when
\* detection failed); right_elbow / left_elbow are the angles at the elbow of
\* the shoulder-elbow-wrist landmarks of each arm; the other fields are the
\* landmark coordinates the extractors read.

\* frame["metrics"] as PoseDetector._calculate_frame_metrics fills it
FrameMetrics(f) ==
    IF f.nlm < 17 THEN EmptyDict
    ELSE [left_elbow_angle |-> f.left_elbow,
          right_elbow_angle |-> f.right_elbow,
          shoulder_alignment |-> Abs(f.left_shoulder_y - f.right_shoulder_y)]

\* "metrics" in frame: set only when landmarks were detected
HasMetrics(f) == f.nlm > 0

\* frame.get("metrics", {})
MetricsOrEmpty(f) == IF HasMetrics(f) THEN FrameMetrics(f) ELSE EmptyDict

SetMax(S) == CHOOSE x \in S : \A y \in S : y <= x
SetMin(S) == CHOOSE x \in S : \A y \in S : x <= y

\* detect_bowling_arm with >= in place of > in the two comparisons
DetectBowlingArm_Geq(frames) ==
    LET idx == {i \in DOMAIN frames : HasMetrics(frames[i])}
        right_arm_angles == {Get(FrameMetrics(frames[i]), "right_elbow_angle", 0) : i \in idx}
        left_arm_angles  == {Get(FrameMetrics(frames[i]), "left_elbow_angle", 0) : i \in idx}
        right_range == SetMax(right_arm_angles) - SetMin(right_arm_angles)
        left_range  == SetMax(left_arm_angles) - SetMin(left_arm_angles)
    IN  IF idx # {}
        THEN IF 2 * right_range >= 3 * left_range THEN "right"
             ELSE IF 2 * left_range >= 3 * right_range THEN "left"
             ELSE "right"
        ELSE "right"

\* BowlingAnalyzer.detect_bowling_arm
DetectBowlingArm(frames) ==
    LET idx == {i \in DOMAIN frames : HasMetrics(frames[i])}
        right_arm_angles == {Get(FrameMetrics(frames[i]), "right_elbow_angle", 0) : i \in idx}
        left_arm_angles  == {Get(FrameMetrics(frames[i]), "left_elbow_angle", 0) : i \in idx}
        right_range == SetMax(right_arm_angles) - SetMin(right_arm_angles)
        left_range  == SetMax(left_arm_angles) - SetMin(left_arm_angles)
    IN  IF idx # {}
        THEN IF 2 * right_range > 3 * left_range THEN "right"
             ELSE IF 2 * left_range > 3 * right_range THEN "left"
             ELSE "right"
        ELSE "right"

\* calculate_angle(shoulder, elbow, wrist) of the arm's landmarks of a frame
ArmAngle(f, arm) == IF arm = "right" THEN f.right_elbow ELSE f.left_elbow
ArmWrist(f, arm) == IF arm = "right" THEN f.right_wrist ELSE f.left_wrist
ArmAnkle(f, arm) == IF arm = "right" THEN f.right_ankle ELSE f.left_ankle

\* population standard deviation (np.std) of val[i], i in S, in the unit of val
StdOf(S, val) ==
    LET RECURSIVE Sum(_), SumSq(_)
        Sum(T) == IF T = {} THEN 0
                  ELSE LET i == CHOOSE j \in T : TRUE IN val[i] + Sum(T \ {i})
        SumSq(T) == IF T = {} THEN 0
                    ELSE LET i == CHOOSE j \in T : TRUE IN val[i] * val[i] + SumSq(T \ {i})
        n == Cardinality(S)
    IN  ISqrt(n * SumSq(S) - Sum(S) * Sum(S)) \div n

\* BowlingAnalyzer.calculate_accuracy_score, in tenths
CalculateAccuracyScore(frames, arm) ==
    LET rel == {i \in DOMAIN frames :
                   /\ Get(MetricsOrEmpty(frames[i]), "right_elbow_angle", 18000) < 4000
                   /\ frames[i].nlm > 0
                   /\ frames[i].nlm > (IF arm = "right" THEN 16 ELSE 15)}
        wx == [i \in rel |-> ArmWrist(frames[i], arm).x]
        wy == [i \in rel |-> ArmWrist(frames[i], arm).y]
        consistency == 1000 - 5 * (StdOf(rel, wx) + StdOf(rel, wy))
    IN  IF Cardinality(rel) > 2
        THEN Max2(0, Min2(1000, consistency))
        ELSE 750

\* estimate_bowling_speed: superseded by ball tracking, returns 0.0
EstimateBowlingSpeed(frames, arm) == 0

\* extract_bowling_metrics with the elbow extension taken as max - first angle
ExtractBowlingMetrics_FirstAngle(frames, arm) ==
    LET n == Len(frames)
        eligible == {i \in 1..n : frames[i].nlm > (IF arm = "right" THEN 28 ELSE 27)}
        angle(i) == ArmAngle(frames[i], arm)
        angles == {angle(i) : i \in eligible}
        release_points == {i \in eligible : angle(i) < 3000}
        front_foot_positions == {i \in eligible : 10 * (i - 1) > 6 * n}
        ankle_y(i) == ArmAnkle(frames[i], arm).y
        best_release == FirstMin(release_points, [i \in release_points |-> angle(i)])
        landing == FirstMin(front_foot_positions, [i \in front_foot_positions |-> ankle_y(i)])
        landing_position == [frame |-> landing - 1,
                             y_position |-> ArmAnkle(frames[landing], arm).y,
                             x_position |-> ArmAnkle(frames[landing], arm).x]
    IN  OptKey("elbow_extension", eligible # {}, SetMax(angles) - angle(SetMin(eligible)))
        @@ OptKey("max_elbow_angle", eligible # {}, SetMax(angles))
        @@ OptKey("min_elbow_angle", eligible # {}, SetMin(angles))
        @@ OptKey("release_point", release_points # {}, ArmWrist(frames[best_release], arm))
        @@ OptKey("release_frame", release_points # {}, best_release - 1)
        @@ OptKey("front_foot_landing", front_foot_positions # {},
                  [frame |-> landing - 1,
                   position |-> landing_position,
                   is_no_ball |-> landing_position.x_position > 95])
        @@ [estimated_speed |-> EstimateBowlingSpeed(frames, arm),
            accuracy_score |-> CalculateAccuracyScore(frames, arm)]

\* extract_bowling_metrics taking the first frame below 30 degrees as the release
ExtractBowlingMetrics_FirstRelease(frames, arm) ==
    LET n == Len(frames)
        eligible == {i \in 1..n : frames[i].nlm > (IF arm = "right" THEN 28 ELSE 27)}
        angle(i) == ArmAngle(frames[i], arm)
        angles == {angle(i) : i \in eligible}
        release_points == {i \in eligible : angle(i) < 3000}
        front_foot_positions == {i \in eligible : 10 * (i - 1) > 6 * n}
        ankle_y(i) == ArmAnkle(frames[i], arm).y
        best_release == SetMin(release_points)
        landing == FirstMin(front_foot_positions, [i \in front_foot_positions |-> ankle_y(i)])
        landing_position == [frame |-> landing - 1,
                             y_position |-> ArmAnkle(frames[landing], arm).y,
                             x_position |-> ArmAnkle(frames[landing], arm).x]
    IN  OptKey("elbow_extension", eligible # {}, SetMax(angles) - SetMin(angles))
        @@ OptKey("max_elbow_angle", eligible # {}, SetMax(angles))
        @@ OptKey("min_elbow_angle", eligible # {}, SetMin(angles))
        @@ OptKey("release_point", release_points # {}, ArmWrist(frames[best_release], arm))
        @@ OptKey("release_frame", release_points # {}, best_release - 1)
        @@ OptKey("front_foot_landing", front_foot_positions # {},
                  [frame |-> landing - 1,
                   position |-> landing_position,
                   is_no_ball |-> landing_position.x_position > 95])
        @@ [estimated_speed |-> EstimateBowlingSpeed(frames, arm),
            accuracy_score |-> CalculateAccuracyScore(frames, arm)]

ExtractBowlingMetrics_FromSixTenths(frames, arm) ==
    LET n == Len(frames)
        eligible == {i \in 1..n : frames[i].nlm > (IF arm = "right" THEN 28 ELSE 27)}
        angle(i) == ArmAngle(frames[i], arm)
        angles == {angle(i) : i \in eligible}
        release_points == {i \in eligible : angle(i) < 3000}
        front_foot_positions == {i \in eligible : 10 * (i - 1) >= 6 * n}
        ankle_y(i) == ArmAnkle(frames[i], arm).y
        best_release == FirstMin(release_points, [i \in release_points |-> angle(i)])
        landing == FirstMin(front_foot_positions, [i \in front_foot_positions |-> ankle_y(i)])
        landing_position == [frame |-> landing - 1,
                             y_position |-> ArmAnkle(frames[landing], arm).y,
                             x_position |-> ArmAnkle(frames[landing], arm).x]
    IN  OptKey("elbow_extension", eligible # {}, SetMax(angles) - SetMin(angles))
        @@ OptKey("max_elbow_angle", eligible # {}, SetMax(angles))
        @@ OptKey("min_elbow_angle", eligible # {}, SetMin(angles))
        @@ OptKey("release_point", release_points # {}, ArmWrist(frames[best_release], arm))
        @@ OptKey("release_frame", release_points # {}, best_release - 1)
        @@ OptKey("front_foot_landing", front_foot_positions # {},
                  [frame |-> landing - 1,
                   position |-> landing_position,
                   is_no_ball |-> landing_position.x_position > 95])
        @@ [estimated_speed |-> EstimateBowlingSpeed(frames, arm),
            accuracy_score |-> CalculateAccuracyScore(frames, arm)]

\* BowlingAnalyzer.extract_bowling_metrics; frame i of the source is frames[i + 1]
ExtractBowlingMetrics(frames, arm) ==
    LET n == Len(frames)
        eligible == {i \in 1..n : frames[i].nlm > (IF arm = "right" THEN 28 ELSE 27)}
        angle(i) == ArmAngle(frames[i], arm)
        angles == {angle(i) : i \in eligible}
        release_points == {i \in eligible : angle(i) < 3000}
        front_foot_positions == {i \in eligible : 10 * (i - 1) > 6 * n}
        ankle_y(i) == ArmAnkle(frames[i], arm).y
        best_release == FirstMin(release_points, [i \in release_points |-> angle(i)])
        landing == FirstMin(front_foot_positions, [i \in front_foot_positions |-> ankle_y(i)])
        landing_position == [frame |-> landing - 1,
                             y_position |-> ArmAnkle(frames[landing], arm).y,
                             x_position |-> ArmAnkle(frames[landing], arm).x]
    IN  OptKey("elbow_extension", eligible # {}, SetMax(angles) - SetMin(angles))
        @@ OptKey("max_elbow_angle", eligible # {}, SetMax(angles))
        @@ OptKey("min_elbow_angle", eligible # {}, SetMin(angles))
        @@ OptKey("release_point", release_points # {}, ArmWrist(frames[best_release], arm))
        @@ OptKey("release_frame", release_points # {}, best_release - 1)
        @@ OptKey("front_foot_landing", front_foot_positions # {},
                  [frame |-> landing - 1,
                   position |-> landing_position,
                   is_no_ball |-> landing_position.x_position > 95])
        @@ [estimated_speed |-> EstimateBowlingSpeed(frames, arm),
            accuracy_score |-> CalculateAccuracyScore(frames, arm)]

\* BowlingAnalyzer.detect_swing_type
DetectSwingType(frames, arm, traj) ==
    LET points == Get(traj, "points_2d", << >>)
        delta == points[Len(points)].x - points[1].x
        by_ball == ~Falsy(traj) /\ "points_2d" \in DOMAIN traj /\ Len(points) > 10
                   /\ Abs(delta) > 10
        rel == {i \in DOMAIN frames :
                   Get(MetricsOrEmpty(frames[i]), "right_elbow_angle", 18000) < 4000}
        release_frame == frames[SetMin(rel)]
        shoulder_tilt == release_frame.right_shoulder_y - release_frame.left_shoulder_y
    IN  IF by_ball
        THEN IF (arm = "right" /\ delta < 0) \/ (arm = "left" /\ delta > 0)
             THEN "in_swing" ELSE "out_swing"
        ELSE IF Len(frames) < 10 THEN "unknown"
        ELSE IF rel = {} THEN "straight"
        ELSE IF release_frame.nlm > 12 /\ shoulder_tilt > 5
             THEN (IF arm = "right" THEN "out_swing" ELSE "in_swing")
        ELSE IF release_frame.nlm > 12 /\ shoulder_tilt < 0 - 5
             THEN (IF arm = "right" THEN "in_swing" ELSE "out_swing")
        ELSE "straight"

\* calculate_performance_score without the 40-point limit on the speed term
CalculatePerformanceScore_SpeedUnclamped(m) ==
    LET speed == Get(m, "speed_kmh", 0)
        accuracy == Get(m, "accuracy_score", 500)
        spin == Get(m, "spin_rpm", 0)
        speed_score == 40 * speed
        accuracy_score == 60 * accuracy
        spin_score == Min2(3 * spin, 30000)
        total == speed_score + accuracy_score + spin_score
    IN  RoundDiv(Min2(total, 150000), 150)

\* BowlingAnalyzer.calculate_performance_score, in tenths
CalculatePerformanceScore(m) ==
    LET speed == Get(m, "speed_kmh", 0)
        accuracy == Get(m, "accuracy_score", 500)
        spin == Get(m, "spin_rpm", 0)
        \* the three terms over the common denominator 150
        speed_score == Min2(40 * speed, 60000)
        accuracy_score == 60 * accuracy
        spin_score == Min2(3 * spin, 30000)
        total == speed_score + accuracy_score + spin_score
    IN  RoundDiv(Min2(total, 150000), 150)

\* BowlingAnalyzer.classify_bowling_style
ClassifyBowlingStyle(m, arm) ==
    LET speed == Get(m, "estimated_speed", 0)
        style == IF speed > 1300 THEN "fast" ELSE IF speed > 1100 THEN "medium" ELSE "spin"
    IN  << arm, "arm", style >>

\* the events detect_key_events appends for frame i (source index i - 1)
KeyEventsOfFrame(frames, arm, i) ==
    LET fm == MetricsOrEmpty(frames[i])
        n == Len(frames)
        elbow_key == IF arm = "right" THEN "right_elbow_angle" ELSE "left_elbow_angle"
    IN  (IF 10 * (i - 1) < 3 * n /\ Get(fm, "right_knee_angle", 18000) < 10000
         THEN << [frame |-> i - 1, event |-> "back_foot_contact"] >> ELSE << >>)
        \o (IF 10 * (i - 1) > 6 * n /\ Get(fm, "left_knee_angle", 18000) < 12000
            THEN << [frame |-> i - 1, event |-> "front_foot_landing"] >> ELSE << >>)
        \o (IF Get(fm, elbow_key, 18000) < 3500
            THEN << [frame |-> i - 1, event |-> "ball_release"] >> ELSE << >>)

RECURSIVE KeyEventsUpTo(_, _, _)
KeyEventsUpTo(frames, arm, k) ==
    IF k = 0 THEN << >>
    ELSE KeyEventsUpTo(frames, arm, k - 1) \o KeyEventsOfFrame(frames, arm, k)

\* BowlingAnalyzer.detect_key_events
DetectKeyEvents(frames, arm) == KeyEventsUpTo(frames, arm, Len(frames))

----------------------------------------------------------------------------
(* Inputs of the model *)

\* longest frame sequence the pose adapter returns
MaxFrames == 4
\* longest run of ball detections the detector adapter returns
MaxPoints == 12

Landmark(px, py, pz) == [x |-> px, y |-> py, z |-> pz]

\* a frame without pose landmarks
NoPoseFrame ==
    [nlm |-> 0, right_elbow |-> 0, left_elbow |-> 0,
     right_wrist |-> Landmark(0, 0, 0), left_wrist |-> Landmark(0, 0, 0),
     right_ankle |-> Landmark(0, 0, 0), left_ankle |-> Landmark(0, 0, 0),
     right_shoulder_y |-> 0, left_shoulder_y |-> 0]

\* a frame with all 33 landmarks: elbow angles r and l, ankles at x = ax
PoseFrame(r, l, ax) ==
    [nlm |-> 33, right_elbow |-> r, left_elbow |-> l,
     right_wrist |-> Landmark(60, 20 + r \div 1000, 0),
     left_wrist |-> Landmark(40, 20 + l \div 1000, 0),
     right_ankle |-> Landmark(ax, 90 - r \div 1000, 0),
     left_ankle |-> Landmark(ax, 90 - l \div 1000, 0),
     right_shoulder_y |-> 30, left_shoulder_y |-> 30 + (r - l) \div 1000]

FrameKinds ==
    { NoPoseFrame,
      PoseFrame(17000, 17000, 50),
      PoseFrame(15500, 17000, 50),
      PoseFrame(2500, 17000, 96),
      PoseFrame(17000, 2500, 50) }

RECURSIVE SeqsUpTo(_, _)
\* the sequences over S of length at most n
SeqsUpTo(S, n) ==
    IF n = 0 THEN { << >> }
    ELSE LET shorter == SeqsUpTo(S, n - 1)
         IN  shorter \cup {Append(s, e) : s \in {t \in shorter : Len(t) = n - 1}, e \in S}

\* what process_video can return: a report with frames, or nothing usable
PoseOutputs ==
    { EmptyDict } \cup { [frames |-> fs] : fs \in SeqsUpTo(FrameKinds, MaxFrames) }

\* one detection per frame 0..n-1, the ball moving dx per frame at height y
BallRun(n, dx, y) ==
    [i \in 1..n |->
        [frame |-> i - 1,
         bbox |-> << dx * (i - 1) - 500, y - 500, dx * (i - 1) + 500, y + 500 >>,
         confidence |-> 90,
         class |-> 32]]

BallInputs ==
    { BallRun(n, dx, y) : n \in {0, 1, MaxPoints}, dx \in {0, 4000}, y \in {5, 50} }

----------------------------------------------------------------------------
(* BowlingAnalyzer.analyze_bowling_action (the definition in force, the second
   one of the class), one action per stage *)

NoReport == EmptyDict

\* no phases detected, no probability computed, no processing run
InitTaskIdle ==
    /\ phases = EmptyDict
    /\ probability = 0
    /\ sessions = EmptyDict
    /\ analyses = {}
    /\ runs = EmptyDict

\* nothing classified, scored or saved
InitSave ==
    /\ delivery = EmptyDict
    /\ scores = {}
    /\ deliveries = {}
    /\ savers = EmptyDict
    /\ InitTaskIdle

InitLocals ==
    /\ ball_detections = << >>
    /\ ball_trajectory = EmptyDict
    /\ ball_speed = 0
    /\ ball_spin = 0
    /\ ball_type = EmptyDict
    /\ bowling_arm = ""
    /\ metrics = EmptyDict
    /\ swing_type = ""
    /\ violations = << >>
    /\ raised = FALSE
    /\ performance_score = 0
    /\ recommendations = << >>
    /\ report = NoReport
    /\ InitSave

Init ==
    /\ pc = "pose_detection"
    /\ pose_data \in PoseOutputs
    /\ video_detections \in BallInputs
    /\ InitLocals

Frames == pose_data.frames

\* Step 1: pose detection; no pose data is the error result
StepPose ==
    /\ pc = "pose_detection"
    /\ IF DOMAIN pose_data = {} \/ "frames" \notin DOMAIN pose_data
       THEN /\ report' = [error |-> "No pose data extracted"]
            /\ pc' = "done"
       ELSE /\ report' = report
            /\ pc' = "ball_tracking"
    /\ UNCHANGED <<pose_data, video_detections, ball_detections, ball_trajectory,
                   ball_speed, ball_spin, ball_type, bowling_arm, metrics, swing_type,
                   violations, raised, performance_score, recommendations>>
    /\ UNCHANGED save_vars

\* Step 2: ball tracking
StepBallTracking ==
    /\ pc = "ball_tracking"
    /\ ball_detections' = video_detections
    /\ ball_trajectory' = TrackBallTrajectory(video_detections)
    /\ pc' = "ball_metrics"
    /\ UNCHANGED <<pose_data, video_detections, ball_speed, ball_spin, ball_type,
                   bowling_arm, metrics, swing_type, violations, raised,
                   performance_score, recommendations, report>>
    /\ UNCHANGED save_vars

\* ball speed, spin and type from the tracked ball
StepBallMetrics ==
    /\ pc = "ball_metrics"
    /\ ball_speed' = CalculateBallSpeed(ball_trajectory)
    /\ ball_spin' = CalculateSpinRate(ball_detections)
    /\ ball_type' = ClassifyBallType(ball_trajectory, CalculateBallSpeed(ball_trajectory))
    /\ pc' = "detect_arm"
    /\ UNCHANGED <<pose_data, video_detections, ball_detections, ball_trajectory,
                   bowling_arm, metrics, swing_type, violations, raised,
                   performance_score, recommendations, report>>
    /\ UNCHANGED save_vars

\* Step 3: bowling arm
StepDetectArm ==
    /\ pc = "detect_arm"
    /\ bowling_arm' = DetectBowlingArm(Frames)
    /\ pc' = "extract_metrics"
    /\ UNCHANGED <<pose_data, video_detections, ball_detections, ball_trajectory,
                   ball_speed, ball_spin, ball_type, metrics, swing_type, violations,
                   raised, performance_score, recommendations, report>>
    /\ UNCHANGED save_vars

\* Step 4: pose metrics, then the ball metrics added to them
StepExtractMetrics ==
    /\ pc = "extract_metrics"
    /\ metrics' = ball_type
                  @@ [speed_kmh |-> ball_speed, spin_rpm |-> ball_spin]
                  @@ ExtractBowlingMetrics(Frames, bowling_arm)
    /\ pc' = "swing_type"
    /\ UNCHANGED <<pose_data, video_detections, ball_detections, ball_trajectory,
                   ball_speed, ball_spin, ball_type, bowling_arm, swing_type,
                   violations, raised, performance_score, recommendations, report>>
    /\ UNCHANGED save_vars

\* Step 5: swing type
StepSwingType ==
    /\ pc = "swing_type"
    /\ swing_type' = DetectSwingType(Frames, bowling_arm, ball_trajectory)
    /\ metrics' = ("swing_type" :> swing_type') @@ metrics
    /\ pc' = "compliance"
    /\ UNCHANGED <<pose_data, video_detections, ball_detections, ball_trajectory,
                   ball_speed, ball_spin, ball_type, bowling_arm, violations, raised,
                   performance_score, recommendations, report>>
    /\ UNCHANGED save_vars

\* Step 6: ICC compliance; an exception escapes the whole call
StepCompliance ==
    /\ pc = "compliance"
    /\ LET r == CheckIccCompliance(metrics)
       IN  /\ violations' = r.violations
           /\ raised' = r.raised
           /\ pc' = IF r.raised THEN "raised" ELSE "performance_score"
    /\ UNCHANGED <<pose_data, video_detections, ball_detections, ball_trajectory,
                   ball_speed, ball_spin, ball_type, bowling_arm, metrics, swing_type,
                   performance_score, recommendations, report>>
    /\ UNCHANGED save_vars

\* Step 7: performance score
StepPerformanceScore ==
    /\ pc = "performance_score"
    /\ performance_score' = CalculatePerformanceScore(metrics)
    /\ metrics' = ("performance_score" :> performance_score') @@ metrics
    /\ pc' = "recommendations"
    /\ UNCHANGED <<pose_data, video_detections, ball_detections, ball_trajectory,
                   ball_speed, ball_spin, ball_type, bowling_arm, swing_type,
                   violations, raised, recommendations, report>>
    /\ UNCHANGED save_vars

\* Step 8 written as if no violation had been found
StepRecommendations_NoViolations ==
    /\ pc = "recommendations"
    /\ recommendations' = GenerateCoachingRecommendations(metrics, << >>)
    /\ pc' = "report"
    /\ UNCHANGED <<pose_data, video_detections, ball_detections, ball_trajectory,
                   ball_speed, ball_spin, ball_type, bowling_arm, metrics, swing_type,
                   violations, raised, performance_score, report>>
    /\ UNCHANGED save_vars

\* Step 8: coaching recommendations
StepRecommendations ==
    /\ pc = "recommendations"
    /\ recommendations' = GenerateCoachingRecommendations(metrics, violations)
    /\ pc' = "report"
    /\ UNCHANGED <<pose_data, video_detections, ball_detections, ball_trajectory,
                   ball_speed, ball_spin, ball_type, bowling_arm, metrics, swing_type,
                   violations, raised, performance_score, report>>
    /\ UNCHANGED save_vars

\* the block with the elbow status turning "Illegal" at the 12-degree warning
IccComplianceBlock_IllegalFromWarning(m, v) ==
    [is_compliant |-> Len(v) = 0,
     violations |-> v,
     elbow_extension_status |->
         IF Get(m, "elbow_extension", 0) <= 1200
         THEN "Legal" ELSE "Illegal",
     front_foot_status |->
         IF ~Get(Get(m, "front_foot_landing", EmptyDict), "is_no_ball", FALSE)
         THEN "Legal" ELSE "No-ball"]

\* the "icc_compliance" block of the report
IccComplianceBlock(m, v) ==
    [is_compliant |-> Len(v) = 0,
     violations |-> v,
     elbow_extension_status |->
         IF Get(m, "elbow_extension", 0) <= ICC_ELBOW_EXTENSION_LIMIT
         THEN "Legal" ELSE "Illegal",
     front_foot_status |->
         IF ~Get(Get(m, "front_foot_landing", EmptyDict), "is_no_ball", FALSE)
         THEN "Legal" ELSE "No-ball"]

\* Step 9 and the final report
StepReport ==
    /\ pc = "report"
    /\ report' =
         [bowling_metrics |->
             [bowling_arm |-> bowling_arm,
              bowling_style |-> ClassifyBowlingStyle(metrics, bowling_arm),
              elbow_extension |-> Get(metrics, "elbow_extension", 0),
              release_point |-> Get(metrics, "release_point", EmptyDict),
              front_foot_landing |-> Get(metrics, "front_foot_landing", EmptyDict),
              swing_type |-> swing_type,
              speed_kmh |-> ball_speed,
              spin_rpm |-> ball_spin,
              is_yorker |-> Get(metrics, "is_yorker", FALSE),
              is_bouncer |-> Get(metrics, "is_bouncer", FALSE),
              is_full_toss |-> Get(metrics, "is_full_toss", FALSE),
              accuracy_score |-> Get(metrics, "accuracy_score", 0),
              performance_score |-> performance_score],
          icc_compliance |-> IccComplianceBlock(metrics, violations),
          coaching_recommendations |-> recommendations,
          pose_data_summary |->
             [total_frames |-> Len(Frames),
              frames_with_pose |-> Cardinality({i \in DOMAIN Frames : Frames[i].nlm > 0}),
              key_events |-> DetectKeyEvents(Frames, bowling_arm)],
          ball_tracking |->
             [detections_count |-> Len(ball_detections),
              trajectory_summary |-> Get(ball_trajectory, "summary", EmptyDict),
              average_speed |-> ball_speed,
              max_speed |-> ball_speed]]
    /\ pc' = "done"
    /\ UNCHANGED <<pose_data, video_detections, ball_detections, ball_trajectory,
                   ball_speed, ball_spin, ball_type, bowling_arm, metrics, swing_type,
                   violations, raised, performance_score, recommendations>>
    /\ UNCHANGED save_vars

Next ==
    \/ StepPose
    \/ StepBallTracking
    \/ StepBallMetrics
    \/ StepDetectArm
    \/ StepExtractMetrics
    \/ StepSwingType
    \/ StepCompliance
    \/ StepPerformanceScore
    \/ StepRecommendations
    \/ StepReport

Spec == Init /\ [][Next]_vars

----------------------------------------------------------------------------
(* check_icc_compliance and generate_coaching_recommendations applied to
   metrics records *)

\* an optional value: << >> when the key is missing, << v >> when present
Options(S) == { << >> } \cup { << v >> : v \in S }

ElbowInputs == {0, 499, 500, 1200, 1201, 1490, 1500, 1501, 1510, 14500}
SpeedInputs == {0, 1199, 1200, 1400, 1401}
SwingInputs == {"in_swing", "out_swing", "straight", "unknown"}

\* metrics["front_foot_landing"] as extract_bowling_metrics builds it
FootLanding(ax) ==
    [frame |-> 3,
     position |-> [frame |-> 3, y_position |-> 90, x_position |-> ax],
     is_no_ball |-> ax > 95]

FootInputs == { EmptyDict, FootLanding(50), FootLanding(95), FootLanding(96) }

OptDict(k, o) == OptKey(k, Len(o) > 0, o[1])

RuleMetrics ==
    { OptDict("elbow_extension", e) @@ OptDict("front_foot_landing", f)
      @@ OptDict("swing_type", s) @@ OptDict("estimated_speed", v) :
        e \in Options(ElbowInputs), f \in Options(FootInputs),
        s \in Options(SwingInputs), v \in Options(SpeedInputs) }

InitRules ==
    /\ pc = "rules_check"
    /\ pose_data = EmptyDict
    /\ video_detections = << >>
    /\ ball_detections = << >>
    /\ ball_trajectory = EmptyDict
    /\ ball_speed = 0
    /\ ball_spin = 0
    /\ ball_type = EmptyDict
    /\ bowling_arm = "right"
    /\ metrics \in RuleMetrics
    /\ swing_type = ""
    /\ violations = << >>
    /\ raised = FALSE
    /\ performance_score = 0
    /\ recommendations = << >>
    /\ report = NoReport
    /\ InitSave

\* violations = check_icc_compliance(metrics, bowling_arm)
RulesCheck ==
    /\ pc = "rules_check"
    /\ LET r == CheckIccCompliance(metrics)
       IN  /\ violations' = r.violations
           /\ raised' = r.raised
           /\ pc' = IF r.raised THEN "raised" ELSE "rules_recommend"
    /\ UNCHANGED <<pose_data, video_detections, ball_detections, ball_trajectory,
                   ball_speed, ball_spin, ball_type, bowling_arm, metrics, swing_type,
                   performance_score, recommendations, report>>
    /\ UNCHANGED save_vars

\* recommendations = generate_coaching_recommendations(metrics, violations)
RulesRecommend ==
    /\ pc = "rules_recommend"
    /\ recommendations' = GenerateCoachingRecommendations(metrics, violations)
    /\ pc' = "rules_done"
    /\ UNCHANGED <<pose_data, video_detections, ball_detections, ball_trajectory,
                   ball_speed, ball_spin, ball_type, bowling_arm, metrics, swing_type,
                   violations, raised, performance_score, report>>
    /\ UNCHANGED save_vars

NextRules == RulesCheck \/ RulesRecommend

SpecRules == InitRules /\ [][NextRules]_vars

----------------------------------------------------------------------------
(* calculate_ball_speed applied to trajectory dicts *)

\* longest point list of a trajectory dict
MaxSpeedPoints == 3

SpeedPoints == { [x |-> 0, y |-> 0], [x |-> 300, y |-> 400], [x |-> 4000, y |-> 0] }

SpeedTrajectories ==
    LET lists == SeqsUpTo(SpeedPoints, MaxSpeedPoints)
    IN  { NoneDict, EmptyDict }
        \cup { [trajectory |-> p] : p \in lists }
        \cup { [points_2d |-> p] : p \in lists }
        \cup { [trajectory |-> p, points_2d |-> q] :
                 p \in SeqsUpTo(SpeedPoints, 1), q \in lists }

InitSpeed ==
    /\ pc = "speed_call"
    /\ pose_data = EmptyDict
    /\ video_detections = << >>
    /\ ball_detections = << >>
    /\ ball_trajectory \in SpeedTrajectories
    /\ ball_speed = 0 - 1          \* nothing returned yet
    /\ ball_spin = 0
    /\ ball_type = EmptyDict
    /\ bowling_arm = ""
    /\ metrics = EmptyDict
    /\ swing_type = ""
    /\ violations = << >>
    /\ raised = FALSE
    /\ performance_score = 0
    /\ recommendations = << >>
    /\ report = NoReport
    /\ InitSave

\* ball_speed = calculate_ball_speed(ball_trajectory)
SpeedCall ==
    /\ pc = "speed_call"
    /\ ball_speed' = CalculateBallSpeed(ball_trajectory)
    /\ pc' = "speed_done"
    /\ UNCHANGED <<pose_data, video_detections, ball_detections, ball_trajectory,
                   ball_spin, ball_type, bowling_arm, metrics, swing_type, violations,
                   raised, performance_score, recommendations, report>>
    /\ UNCHANGED save_vars

NextSpeed == SpeedCall

SpecSpeed == InitSpeed /\ [][NextSpeed]_vars

----------------------------------------------------------------------------
(* app/analytics/pitch_mapping.py: line and length zones, wicket score.
   Normalized coordinates in hundredths, scores in tenths. *)

\* classify_line with <= in place of < on the off / middle border
ClassifyLine_Leq(x) ==
    IF x <= 35 THEN "off"
    ELSE IF x < 65 THEN "middle"
    ELSE "leg"

ClassifyLine(x) ==
    IF x < 35 THEN "off"
    ELSE IF x < 65 THEN "middle"
    ELSE "leg"

ClassifyLength(y) ==
    IF y < 20 THEN "yorker"
    ELSE IF y < 40 THEN "full"
    ELSE IF y < 60 THEN "good"
    ELSE IF y < 80 THEN "short"
    ELSE "bouncer"

\* the coordinates of a pitch landing point: [0, 1] and a margin around it
PitchCoords == (0 - 5)..105

PitchPoints == { [x |-> px, y |-> py] : px \in PitchCoords, py \in PitchCoords }

InitPitch ==
    /\ pc = "classify_call"
    /\ pose_data = EmptyDict
    /\ video_detections = << >>
    /\ ball_detections = << >>
    /\ ball_trajectory \in { [pitch_landing |-> p] : p \in PitchPoints }
    /\ ball_speed = 0
    /\ ball_spin = 0
    /\ ball_type = EmptyDict
    /\ bowling_arm = ""
    /\ metrics = EmptyDict
    /\ swing_type = ""
    /\ violations = << >>
    /\ raised = FALSE
    /\ performance_score = 0
    /\ recommendations = << >>
    /\ report = NoReport
    /\ InitSave

\* line = classify_line(pitch_point["x"]); length = classify_length(pitch_point["y"])
ClassifyCall ==
    /\ pc = "classify_call"
    /\ delivery' = [line |-> ClassifyLine(ball_trajectory.pitch_landing.x),
                    length |-> ClassifyLength(ball_trajectory.pitch_landing.y)]
    /\ pc' = "classify_done"
    /\ UNCHANGED <<pose_data, video_detections, ball_detections, ball_trajectory,
                   ball_speed, ball_spin, ball_type, bowling_arm, metrics, swing_type,
                   violations, raised, performance_score, recommendations, report,
                   scores, deliveries, savers, task_vars>>

NextPitch == ClassifyCall

SpecPitch == InitPitch /\ [][NextPitch]_vars

\* the value None where a zone name is expected
NoZone == "None"

\* line_scores.get(line, 40)
LineWeight(line) == Get([off |-> 70, middle |-> 50, leg |-> 30], line, 40)

\* length_scores.get(length, 40)
LengthWeight(length) ==
    Get([yorker |-> 90, full |-> 70, good |-> 80, short |-> 40, bouncer |-> 30], length, 40)

\* get_line_length_score with the two weights exchanged
GetLineLengthScore_Swapped(line, length) ==
    LineWeight(line) * 6 + LengthWeight(length) * 4

\* get_line_length_score: line_score * 0.4 + length_score * 0.6, in tenths
GetLineLengthScore(line, length) ==
    LineWeight(line) * 4 + LengthWeight(length) * 6

\* most get_line_length_score calls of a run
MaxScoreCalls == 2

\* zone names a delivery row can carry: the zones, None, and a foreign one
LineNames == {"off", "middle", "leg", "wide", NoZone}
LengthNames == {"yorker", "full", "good", "short", "bouncer", "half_volley", NoZone}

InitScore ==
    /\ pc = "score_calls"
    /\ pose_data = EmptyDict
    /\ video_detections = << >>
    /\ InitLocals

\* one more call get_line_length_score(line, length)
ScoreCall ==
    /\ pc = "score_calls"
    /\ Cardinality(scores) < MaxScoreCalls
    /\ \E line \in LineNames, length \in LengthNames :
           scores' = scores \cup
               {[line |-> line, length |-> length,
                 score |-> GetLineLengthScore(line, length)]}
    /\ UNCHANGED <<pc, pose_data, video_detections, ball_detections, ball_trajectory,
                   ball_speed, ball_spin, ball_type, bowling_arm, metrics, swing_type,
                   violations, raised, performance_score, recommendations, report,
                   delivery, deliveries, savers, task_vars>>

NextScore == ScoreCall

SpecScore == InitScore /\ [][NextScore]_vars

----------------------------------------------------------------------------
(* track_ball_trajectory applied to detection lists in any order *)

\* most detections the detector adapter returns for a video
MaxDetections == 3

\* two boxes with centres (5, 5) and (25, 15)
DetectionBoxes == { << 0, 0, 1000, 1000 >>, << 2000, 1000, 3000, 2000 >> }

DetectionKinds ==
    { [frame |-> f, bbox |-> b, confidence |-> c, class |-> 32] :
        f \in {0, 1, 3}, b \in DetectionBoxes, c \in {50, 90} }

InitTrack ==
    /\ pc = "track_call"
    /\ pose_data = EmptyDict
    /\ video_detections \in SeqsUpTo(DetectionKinds, MaxDetections)
    /\ InitLocals

\* ball_trajectory = track_ball_trajectory(video_path)
TrackCall ==
    /\ pc = "track_call"
    /\ ball_trajectory' = TrackBallTrajectory(video_detections)
    /\ pc' = "track_done"
    /\ UNCHANGED <<pose_data, video_detections, ball_detections, ball_speed, ball_spin,
                   ball_type, bowling_arm, metrics, swing_type, violations, raised,
                   performance_score, recommendations, report>>
    /\ UNCHANGED save_vars

NextTrack == TrackCall

SpecTrack == InitTrack /\ [][NextTrack]_vars

----------------------------------------------------------------------------
(* _save_delivery_to_db of BowlingAnalyzer and BattingAnalyzer, called
   concurrently. Each call opens its own database session; a query sees the
   rows committed so far; db.add and db.commit insert one row. *)

\* most calls in progress at once
MaxSavers == 3

SessionIds == {1, 2}

\* the delivery numbers stored for a session
NumbersOf(session_id) ==
    {d.delivery_number : d \in {e \in deliveries : e.session_id = session_id}}

\* db.query(func.max(Delivery.delivery_number)).filter(...).scalar() or 0
MaxNumOrZero(session_id) ==
    IF NumbersOf(session_id) = {} THEN 0 ELSE SetMax(NumbersOf(session_id))

\* the row as the table stores it, under the next primary key
DeliveryRow(session_id, delivery_number) ==
    [id |-> Cardinality(deliveries) + 1,
     session_id |-> session_id,
     delivery_number |-> delivery_number]

InitSaving ==
    /\ pc = "saving"
    /\ pose_data = EmptyDict
    /\ video_detections = << >>
    /\ ball_detections = << >>
    /\ ball_trajectory = EmptyDict
    /\ ball_speed = 0
    /\ ball_spin = 0
    /\ ball_type = EmptyDict
    /\ bowling_arm = ""
    /\ metrics = EmptyDict
    /\ swing_type = ""
    /\ violations = << >>
    /\ raised = FALSE
    /\ performance_score = 0
    /\ recommendations = << >>
    /\ report = NoReport
    /\ delivery = EmptyDict
    /\ scores = {}
    /\ deliveries = {}
    /\ InitTaskIdle
    /\ savers \in [1..MaxSavers ->
                     [analyzer : {"bowling", "batting"}, session_id : SessionIds,
                      at : {"query"}, delivery_number : {0}]]

\* a call works on the table and on its own locals only
SavingOnly ==
    UNCHANGED <<pc, pose_data, video_detections, ball_detections, ball_trajectory,
                ball_speed, ball_spin, ball_type, bowling_arm, metrics, swing_type,
                violations, raised, performance_score, recommendations, report,
                delivery, scores, task_vars>>

\* BowlingAnalyzer: max_num = db.query(...).scalar(); delivery_number = (max_num or 0) + 1
SaveQueryMax(s) ==
    /\ savers[s].analyzer = "bowling"
    /\ savers[s].at = "query"
    /\ savers' = [savers EXCEPT ![s].delivery_number = MaxNumOrZero(savers[s].session_id) + 1,
                                ![s].at = "commit"]
    /\ UNCHANGED deliveries
    /\ SavingOnly

\* BowlingAnalyzer: db.add(delivery); db.commit()
SaveCommit(s) ==
    /\ savers[s].analyzer = "bowling"
    /\ savers[s].at = "commit"
    /\ deliveries' = deliveries \cup
                         {DeliveryRow(savers[s].session_id, savers[s].delivery_number)}
    /\ savers' = [savers EXCEPT ![s].at = "closed"]
    /\ SavingOnly

\* BattingAnalyzer: Delivery(session_id, delivery_number=1, ...); db.add; db.commit
BattingSaveCommit(s) ==
    /\ savers[s].analyzer = "batting"
    /\ savers[s].at = "query"
    /\ deliveries' = deliveries \cup {DeliveryRow(savers[s].session_id, 1)}
    /\ savers' = [savers EXCEPT ![s].delivery_number = 1, ![s].at = "closed"]
    /\ SavingOnly

NextSaving ==
    \/ \E s \in DOMAIN savers : SaveQueryMax(s)
    \/ \E s \in DOMAIN savers : SaveCommit(s)
    \/ \E s \in DOMAIN savers : BattingSaveCommit(s)

SpecSaving == InitSaving /\ [][NextSaving]_vars

----------------------------------------------------------------------------
(* detect_bowling_arm applied to frame lists *)

\* longest frame list given to detect_bowling_arm
MaxArmFrames == 3

\* elbow angles of 0, 20 and 30 degrees: ranges of 0, 10, 20 and 30
ArmAngles == {0, 2000, 3000}

ArmFrameKinds ==
    { NoPoseFrame } \cup { PoseFrame(r, l, 50) : r \in ArmAngles, l \in ArmAngles }

InitArm ==
    /\ pc = "arm_call"
    /\ pose_data \in { [frames |-> fs] : fs \in SeqsUpTo(ArmFrameKinds, MaxArmFrames) }
    /\ video_detections = << >>
    /\ InitLocals

\* bowling_arm = detect_bowling_arm(frames)
ArmCall ==
    /\ pc = "arm_call"
    /\ bowling_arm' = DetectBowlingArm(Frames)
    /\ pc' = "arm_done"
    /\ UNCHANGED <<pose_data, video_detections, ball_detections, ball_trajectory,
                   ball_speed, ball_spin, ball_type, metrics, swing_type, violations,
                   raised, performance_score, recommendations, report>>
    /\ UNCHANGED save_vars

NextArm == ArmCall

SpecArm == InitArm /\ [][NextArm]_vars

----------------------------------------------------------------------------
(* The analysis applied to frames whose elbow angles come from the landmark
   positions *)

\* degrees(acos(cos_angle)) for an angle whose tangent is c / d, c >= 0, d > 0,
\* in centi-degrees; known exactly for the tangents 0, 1/2, 1 and 2, which are
\* the ones the landmarks below make (None otherwise)
AcuteAngle(c, d) ==
    IF c = 0 THEN 0
    ELSE IF 2 * c = d THEN 2657
    ELSE IF c = d THEN 4500
    ELSE IF c = 2 * d THEN 6343
    ELSE None

\* calculate_angle measuring the angle one way round, from 0 to 360 degrees
CalculateAngle_Reflex(point1, point2, point3) ==
    LET v1 == [x |-> point1.x - point2.x, y |-> point1.y - point2.y]
        v2 == [x |-> point3.x - point2.x, y |-> point3.y - point2.y]
        dot_product == v1.x * v2.x + v1.y * v2.y
        turn == v1.x * v2.y - v1.y * v2.x
        cross == Abs(turn)
        angle == IF dot_product = 0 THEN 9000
                 ELSE IF dot_product > 0 THEN AcuteAngle(cross, dot_product)
                 ELSE 18000 - AcuteAngle(cross, 0 - dot_product)
    IN  IF (v1.x = 0 /\ v1.y = 0) \/ (v2.x = 0 /\ v2.y = 0) THEN 0
        ELSE IF turn > 0 THEN 36000 - angle
        ELSE angle

\* BowlingAnalyzer.calculate_angle: the angle at point2, in centi-degrees
CalculateAngle(point1, point2, point3) ==
    LET v1 == [x |-> point1.x - point2.x, y |-> point1.y - point2.y]
        v2 == [x |-> point3.x - point2.x, y |-> point3.y - point2.y]
        dot_product == v1.x * v2.x + v1.y * v2.y
        cross == Abs(v1.x * v2.y - v1.y * v2.x)
    IN  IF (v1.x = 0 /\ v1.y = 0) \/ (v2.x = 0 /\ v2.y = 0) THEN 0
        ELSE IF dot_product = 0 THEN 9000
        ELSE IF dot_product > 0 THEN AcuteAngle(cross, dot_product)
        ELSE 18000 - AcuteAngle(cross, 0 - dot_product)

\* longest frame sequence with landmark geometry
MaxGeoFrames == 4

\* where the wrist is, seen from the elbow: straight up towards the shoulder
\* (0 degrees), up and aside (26.57), aside (90), down (180)
WristUp == [x |-> 0, y |-> 0 - 10]
WristUpAside == [x |-> 5, y |-> 0 - 10]
WristAside == [x |-> 10, y |-> 0]
WristDown == [x |-> 0, y |-> 10]

\* a frame with all 33 landmarks: shoulders above the elbows, the wrists at
\* the offsets rd and ld from the elbows, the ankles at x = ax
GeoFrame(rd, ld, ax) ==
    LET right_shoulder == Landmark(40, 40, 0)
        right_elbow == Landmark(40, 50, 0)
        right_wrist == Landmark(40 + rd.x, 50 + rd.y, 0)
        left_shoulder == Landmark(60, 40, 0)
        left_elbow == Landmark(60, 50, 0)
        left_wrist == Landmark(60 + ld.x, 50 + ld.y, 0)
    IN  [nlm |-> 33,
         right_elbow |-> CalculateAngle(right_shoulder, right_elbow, right_wrist),
         left_elbow |-> CalculateAngle(left_shoulder, left_elbow, left_wrist),
         right_wrist |-> right_wrist,
         left_wrist |-> left_wrist,
         right_ankle |-> Landmark(ax, 90 + rd.y \div 10, 0),
         left_ankle |-> Landmark(ax, 90 + ld.y \div 10, 0),
         right_shoulder_y |-> right_shoulder.y,
         left_shoulder_y |-> left_shoulder.y]

GeoFrameKinds ==
    { NoPoseFrame,
      GeoFrame(WristUp, WristAside, 50),
      GeoFrame(WristUpAside, WristAside, 50),
      GeoFrame(WristDown, WristAside, 96),
      GeoFrame(WristAside, WristUp, 50),
      GeoFrame(WristAside, WristUpAside, 50),
      GeoFrame(WristAside, WristDown, 50) }

InitGeo ==
    /\ pc = "pose_detection"
    /\ pose_data \in { EmptyDict }
                     \cup { [frames |-> fs] : fs \in SeqsUpTo(GeoFrameKinds, MaxGeoFrames) }
    /\ video_detections = << >>
    /\ InitLocals

SpecGeo == InitGeo /\ [][Next]_vars

----------------------------------------------------------------------------
(* extract_bowling_metrics on its own, on frame lists long enough for the
   later-in-action test on the frame index to have boundary cases *)

MaxFootFrames == 6

\* a frame with all 33 landmarks, the right ankle at height ry, the left at ly
FootFrame(ry, ly, ax) ==
    [PoseFrame(17000, 17000, ax) EXCEPT !.right_ankle = Landmark(ax, ry, 0),
                                        !.left_ankle = Landmark(ax, ly, 0)]

FootFrameKinds ==
    { NoPoseFrame, FootFrame(90, 80, 50), FootFrame(85, 85, 96), FootFrame(80, 90, 50) }

InitFoot ==
    /\ pc = "foot_call"
    /\ pose_data \in { [frames |-> fs] : fs \in SeqsUpTo(FootFrameKinds, MaxFootFrames) }
    /\ bowling_arm \in {"right", "left"}
    /\ video_detections = << >>
    /\ ball_detections = << >>
    /\ ball_trajectory = EmptyDict
    /\ ball_speed = 0
    /\ ball_spin = 0
    /\ ball_type = EmptyDict
    /\ metrics = EmptyDict
    /\ swing_type = ""
    /\ violations = << >>
    /\ raised = FALSE
    /\ performance_score = 0
    /\ recommendations = << >>
    /\ report = NoReport
    /\ InitSave

\* metrics = extract_bowling_metrics(frames, bowling_arm)
FootCall ==
    /\ pc = "foot_call"
    /\ metrics' = ExtractBowlingMetrics(Frames, bowling_arm)
    /\ pc' = "foot_done"
    /\ UNCHANGED <<pose_data, video_detections, ball_detections, ball_trajectory,
                   ball_speed, ball_spin, ball_type, bowling_arm, swing_type, violations,
                   raised, performance_score, recommendations, report>>
    /\ UNCHANGED save_vars

SpecFoot == InitFoot /\ [][FootCall]_vars

----------------------------------------------------------------------------
(* BattingAnalyzer.detect_batting_phases *)

\* detect_batting_phases with the first boundary inclusive
DetectBattingPhases_Leq(frames) ==
    LET n == Len(frames)
        idx == [k \in 1..n |-> k - 1]
        Stance(i) == 10 * i <= 3 * n
        Backlift(i) == ~Stance(i) /\ 10 * i < 6 * n
        ShotExecution(i) == ~Stance(i) /\ ~Backlift(i) /\ 10 * i < 9 * n
        FollowThrough(i) == ~Stance(i) /\ ~Backlift(i) /\ ~ShotExecution(i)
    IN  [stance |-> SelectSeq(idx, Stance),
         backlift |-> SelectSeq(idx, Backlift),
         shot_execution |-> SelectSeq(idx, ShotExecution),
         follow_through |-> SelectSeq(idx, FollowThrough)]

\* the frame indices 0..n-1 appended, in order, to the list of their phase
DetectBattingPhases(frames) ==
    LET n == Len(frames)
        idx == [k \in 1..n |-> k - 1]
        Stance(i) == 10 * i < 3 * n
        Backlift(i) == ~Stance(i) /\ 10 * i < 6 * n
        ShotExecution(i) == ~Stance(i) /\ ~Backlift(i) /\ 10 * i < 9 * n
        FollowThrough(i) == ~Stance(i) /\ ~Backlift(i) /\ ~ShotExecution(i)
    IN  [stance |-> SelectSeq(idx, Stance),
         backlift |-> SelectSeq(idx, Backlift),
         shot_execution |-> SelectSeq(idx, ShotExecution),
         follow_through |-> SelectSeq(idx, FollowThrough)]

MaxPhaseFrames == 10

InitPhases ==
    /\ pc = "phases_call"
    /\ pose_data \in { [frames |-> fs] :
                         fs \in SeqsUpTo({NoPoseFrame, PoseFrame(17000, 17000, 50)},
                                         MaxPhaseFrames) }
    /\ video_detections = << >>
    /\ InitLocals

\* phases = self.detect_batting_phases(frames)
PhasesCall ==
    /\ pc = "phases_call"
    /\ phases' = DetectBattingPhases(Frames)
    /\ pc' = "phases_done"
    /\ UNCHANGED <<pose_data, video_detections, ball_detections, ball_trajectory,
                   ball_speed, ball_spin, ball_type, bowling_arm, metrics, swing_type,
                   violations, raised, performance_score, recommendations, report,
                   delivery, scores, deliveries, savers, probability, sessions,
                   analyses, runs>>

SpecPhases == InitPhases /\ [][PhasesCall]_vars

----------------------------------------------------------------------------
(* calculate_spin_rate on its own, on detections that wobble about their line
   of travel *)

MaxSpinPoints == 7

\* one detection per frame, the ball at (1000 * step * i, ys[i + 1]) in frame i
SpinRun(step, ys) ==
    [i \in DOMAIN ys |->
        [frame |-> i - 1,
         bbox |-> << 1000 * step * (i - 1) - 500, ys[i] - 500,
                     1000 * step * (i - 1) + 500, ys[i] + 500 >>,
         confidence |-> 90,
         class |-> 32]]

\* the ball starts at height 0 and wobbles by one unit about it; it ends where
\* it started, at the same height further on, or straight above
SpinInputs ==
    LET Heights(step) ==
            { s \in SeqsUpTo({0 - 100, 0, 100}, MaxSpinPoints) :
                /\ Len(s) >= 4
                /\ s[1] = 0
                /\ s[Len(s)] >= 0
                /\ step = 1 => s[Len(s)] = 0 }
    IN  UNION { { SpinRun(step, ys) : ys \in Heights(step) } : step \in {0, 1} }

InitSpin ==
    /\ pc = "spin_call"
    /\ pose_data = EmptyDict
    /\ video_detections \in SpinInputs
    /\ InitLocals

\* ball_detections = detect_ball_in_video(video_path);
\* ball_spin = calculate_spin_rate(ball_detections)
SpinCall ==
    /\ pc = "spin_call"
    /\ ball_detections' = video_detections
    /\ ball_spin' = CalculateSpinRate(video_detections)
    /\ pc' = "spin_done"
    /\ UNCHANGED <<pose_data, video_detections, ball_trajectory, ball_speed, ball_type,
                   bowling_arm, metrics, swing_type, violations, raised,
                   performance_score, recommendations, report>>
    /\ UNCHANGED save_vars

SpecSpin == InitSpin /\ [][SpinCall]_vars

----------------------------------------------------------------------------
(* BowlingInsights.wicket_probability; the result in thousandths, the
   delivery's speed_kmh and spin_rpm in tenths, its swing_angle in hundredths *)

\* Python truth value of a zone name
ZoneGiven(name) == name # NoZone /\ name # ""

\* x or default, for a number or None
OrElse(x, default) == IF x = None \/ x = 0 THEN default ELSE x

\* wicket_probability clamping only the total
WicketProbability_ClampTotalOnly(d) ==
    LET line_score == IF ZoneGiven(d.line) /\ ZoneGiven(d.length)
                      THEN GetLineLengthScore(d.line, d.length) ELSE 300
        speed == OrElse(d.speed_kmh, 1200)
        speed_factor == speed * 20
        swing == Abs(OrElse(d.swing_angle, 0))
        swing_factor == swing * 20
        spin == OrElse(d.spin_rpm, 0)
        spin_factor == spin * 2
        total == line_score * 40 + speed_factor + swing_factor + spin_factor
    IN  Min2(total, 100000)

\* BowlingInsights.wicket_probability
WicketProbability(d) ==
    LET line_score == IF ZoneGiven(d.line) /\ ZoneGiven(d.length)
                      THEN GetLineLengthScore(d.line, d.length) ELSE 300
        speed == OrElse(d.speed_kmh, 1200)
        speed_factor == Min2(speed * 20, 30000)
        swing == Abs(OrElse(d.swing_angle, 0))
        swing_factor == Min2(swing * 20, 20000)
        spin == OrElse(d.spin_rpm, 0)
        spin_factor == Min2(spin * 2, 20000)
        total == line_score * 40 + speed_factor + swing_factor + spin_factor
    IN  Min2(total, 100000)

\* the deliveries scored: every zone name, speeds of 0, 90, 150 and 180 km/h,
\* swings of -12, 0 and 5 degrees, spins of 0, 500 and 1500 rpm, or none given
WicketDeliveries ==
    [line : LineNames, length : LengthNames,
     speed_kmh : {None, 0, 900, 1500, 1800},
     swing_angle : {None, 0 - 1200, 0, 500},
     spin_rpm : {None, 0, 5000, 15000}]

InitWicket ==
    /\ pc = "wicket_call"
    /\ delivery \in WicketDeliveries
    /\ pose_data = EmptyDict
    /\ video_detections = << >>
    /\ ball_detections = << >>
    /\ ball_trajectory = EmptyDict
    /\ ball_speed = 0
    /\ ball_spin = 0
    /\ ball_type = EmptyDict
    /\ bowling_arm = ""
    /\ metrics = EmptyDict
    /\ swing_type = ""
    /\ violations = << >>
    /\ raised = FALSE
    /\ performance_score = 0
    /\ recommendations = << >>
    /\ report = NoReport
    /\ scores = {}
    /\ deliveries = {}
    /\ savers = EmptyDict
    /\ InitTaskIdle

\* probability = wicket_probability(delivery)
WicketCall ==
    /\ pc = "wicket_call"
    /\ probability' = WicketProbability(delivery)
    /\ pc' = "wicket_done"
    /\ UNCHANGED <<pose_data, video_detections, ball_detections, ball_trajectory,
                   ball_speed, ball_spin, ball_type, bowling_arm, metrics, swing_type,
                   violations, raised, performance_score, recommendations, report,
                   delivery, scores, deliveries, savers, phases, sessions, analyses,
                   runs>>

SpecWicket == InitWicket /\ [][WicketCall]_vars

----------------------------------------------------------------------------
(* calculate_performance_score on its own *)

\* the metrics the score reads: speeds of 0 to 180 km/h, accuracies of 0 to
\* 100, spins of 0 to 1500 rpm, all in tenths
PerformanceMetrics ==
    [speed_kmh : {0, 432, 900, 1495, 1500, 1800},
     accuracy_score : {0, 333, 500, 750, 1000},
     spin_rpm : {0, 2571, 9000, 10000, 15000}]

InitPerformance ==
    /\ pc = "performance_call"
    /\ metrics \in PerformanceMetrics
    /\ pose_data = EmptyDict
    /\ video_detections = << >>
    /\ ball_detections = << >>
    /\ ball_trajectory = EmptyDict
    /\ ball_speed = 0
    /\ ball_spin = 0
    /\ ball_type = EmptyDict
    /\ bowling_arm = ""
    /\ swing_type = ""
    /\ violations = << >>
    /\ raised = FALSE
    /\ performance_score = 0 - 1    \* nothing returned yet
    /\ recommendations = << >>
    /\ report = NoReport
    /\ InitSave

\* performance_score = calculate_performance_score(metrics)
PerformanceCall ==
    /\ pc = "performance_call"
    /\ performance_score' = CalculatePerformanceScore(metrics)
    /\ pc' = "performance_done"
    /\ UNCHANGED <<pose_data, video_detections, ball_detections, ball_trajectory,
                   ball_speed, ball_spin, ball_type, bowling_arm, metrics, swing_type,
                   violations, raised, recommendations, report>>
    /\ UNCHANGED save_vars

SpecPerformance == InitPerformance /\ [][PerformanceCall]_vars

----------------------------------------------------------------------------
(* Background processing of a session: process_video_background (started by
   the upload and by the manual trigger) and process_video_task, which runs
   IntegrationService.process_session. Each run has its own database session;
   a step of a run is the code up to its next commit. *)

MaxRuns == 2

\* one session is stored; runs may also name a session that is not
StoredSessions == {1}

\* what BowlingAnalyzer.analyze_video can do: return a result or raise. The
\* method is called by both tasks and is not defined in the class.
AnalyzeVideoOutcomes == {"returns", "raises"}

\* how the analysis step of a run can end: bowling through analyze_video;
\* BattingAnalyzer.analyze_video reads the undefined name session_id, the
\* generic branch the undefined name pose_detector, process_session rejects
\* any other type
AnalysisOutcomes(session_type) ==
    IF session_type = "bowling" THEN AnalyzeVideoOutcomes ELSE {"raises"}

\* models.Analysis(session_id=..., analysis_type=...) as the insert stores it,
\* with the next primary key
AnalysisRow(session_id, analysis_type) ==
    [id |-> Cardinality(analyses) + 1, session_id |-> session_id,
     analysis_type |-> analysis_type]

\* Analysis.session_id is unique: the insert is rejected when a row exists
HasAnalysis(session_id) == \E a \in analyses : a.session_id = session_id

\* the sessions table after session.status = status; db.commit()
WithStatus(session_id, status) == [sessions EXCEPT ![session_id].status = status]

\* a run moves on; inactive: its database session has had a flush fail and has
\* not been rolled back
RunAt(r, at, inactive) == [runs EXCEPT ![r].at = at, ![r].inactive = inactive]

\* the runs started: process_video_background with the session's type or the
\* type given to the manual trigger, process_video_task with the session id
RunKinds ==
    [task : {"process_video_background"}, session_id : SessionIds,
     session_type : {"bowling", "batting", "fielding"},
     at : {"start"}, found : {FALSE}, inactive : {FALSE}]
    \cup
    [task : {"process_video_task"}, session_id : SessionIds,
     session_type : {""}, at : {"start"}, found : {FALSE}, inactive : {FALSE}]

InitTask ==
    /\ pc = "tasks"
    /\ pose_data = EmptyDict
    /\ video_detections = << >>
    /\ ball_detections = << >>
    /\ ball_trajectory = EmptyDict
    /\ ball_speed = 0
    /\ ball_spin = 0
    /\ ball_type = EmptyDict
    /\ bowling_arm = ""
    /\ metrics = EmptyDict
    /\ swing_type = ""
    /\ violations = << >>
    /\ raised = FALSE
    /\ performance_score = 0
    /\ recommendations = << >>
    /\ report = NoReport
    /\ delivery = EmptyDict
    /\ scores = {}
    /\ deliveries = {}
    /\ savers = EmptyDict
    /\ phases = EmptyDict
    /\ probability = 0
    /\ sessions \in [StoredSessions ->
                       [status : {"uploaded"}, session_type : {"bowling", "batting"}]]
    /\ analyses = {}
    /\ runs \in [1..MaxRuns -> RunKinds]

\* a run works on the two tables and on its own locals only
TaskOnly ==
    UNCHANGED <<pc, pose_data, video_detections, ball_detections, ball_trajectory,
                ball_speed, ball_spin, ball_type, bowling_arm, metrics, swing_type,
                violations, raised, performance_score, recommendations, report,
                delivery, scores, deliveries, savers, phases, probability>>

\* process_video_background: the session query; status "processing"; commit
BgStart(r) ==
    /\ runs[r].task = "process_video_background"
    /\ runs[r].at = "start"
    /\ IF runs[r].session_id \in DOMAIN sessions
       THEN /\ sessions' = WithStatus(runs[r].session_id, "processing")
            /\ runs' = RunAt(r, "analyse", FALSE)
       ELSE /\ runs' = RunAt(r, "returned", FALSE)
            /\ UNCHANGED sessions
    /\ UNCHANGED analyses
    /\ TaskOnly

\* process_video_background: the analysis, db.add(analysis), status
\* "completed", commit
BgSave_NoUniqueCheck(r) ==
    /\ runs[r].task = "process_video_background"
    /\ runs[r].at = "analyse"
    /\ \E outcome \in AnalysisOutcomes(runs[r].session_type) :
           IF outcome = "raises"
           THEN /\ runs' = RunAt(r, "except", FALSE)
                /\ UNCHANGED <<sessions, analyses>>
           ELSE /\ analyses' = analyses \cup
                        {AnalysisRow(runs[r].session_id, runs[r].session_type)}
                /\ sessions' = WithStatus(runs[r].session_id, "completed")
                /\ runs' = RunAt(r, "returned", FALSE)
    /\ TaskOnly

\* process_video_background: the analysis, db.add(analysis), status
\* "completed", commit; the commit fails when the session has an analysis
BgSave(r) ==
    /\ runs[r].task = "process_video_background"
    /\ runs[r].at = "analyse"
    /\ \E outcome \in AnalysisOutcomes(runs[r].session_type) :
           IF outcome = "raises"
           THEN /\ runs' = RunAt(r, "except", FALSE)
                /\ UNCHANGED <<sessions, analyses>>
           ELSE IF HasAnalysis(runs[r].session_id)
           THEN /\ runs' = RunAt(r, "except", TRUE)
                /\ UNCHANGED <<sessions, analyses>>
           ELSE /\ analyses' = analyses \cup
                        {AnalysisRow(runs[r].session_id, runs[r].session_type)}
                /\ sessions' = WithStatus(runs[r].session_id, "completed")
                /\ runs' = RunAt(r, "returned", FALSE)
    /\ TaskOnly

\* process_video_background: the except block: status "failed"; commit. The
\* commit of a database session whose flush failed raises, and the exception
\* leaves the task.
BgExcept(r) ==
    /\ runs[r].task = "process_video_background"
    /\ runs[r].at = "except"
    /\ IF runs[r].inactive
       THEN /\ runs' = RunAt(r, "raised", TRUE)
            /\ UNCHANGED sessions
       ELSE /\ sessions' = WithStatus(runs[r].session_id, "failed")
            /\ runs' = RunAt(r, "returned", FALSE)
    /\ UNCHANGED analyses
    /\ TaskOnly

\* process_session: the session query; status "processing"; commit
PsStart(r) ==
    /\ runs[r].task = "process_video_task"
    /\ runs[r].at = "start"
    /\ IF runs[r].session_id \in DOMAIN sessions
       THEN /\ sessions' = WithStatus(runs[r].session_id, "processing")
            /\ runs' = [RunAt(r, "analyse", FALSE) EXCEPT
                           ![r].session_type = sessions[runs[r].session_id].session_type]
       ELSE /\ runs' = RunAt(r, "returned", FALSE)
            /\ UNCHANGED sessions
    /\ UNCHANGED analyses
    /\ TaskOnly

\* process_session: steps 1 to 3 and the query for the session's analysis
PsAnalyse(r) ==
    /\ runs[r].task = "process_video_task"
    /\ runs[r].at = "analyse"
    /\ \E outcome \in AnalysisOutcomes(runs[r].session_type) :
           IF outcome = "raises"
           THEN runs' = RunAt(r, "except", FALSE)
           ELSE runs' = [RunAt(r, "commit", FALSE) EXCEPT
                            ![r].found = HasAnalysis(runs[r].session_id)]
    /\ UNCHANGED <<sessions, analyses>>
    /\ TaskOnly

\* process_session: the analysis created or updated, status "completed", commit
PsCommit(r) ==
    /\ runs[r].task = "process_video_task"
    /\ runs[r].at = "commit"
    /\ IF ~runs[r].found /\ HasAnalysis(runs[r].session_id)
       THEN /\ runs' = RunAt(r, "except", TRUE)
            /\ UNCHANGED <<sessions, analyses>>
       ELSE /\ analyses' =
                   IF runs[r].found
                   THEN { IF a.session_id = runs[r].session_id
                          THEN [a EXCEPT !.analysis_type = runs[r].session_type]
                          ELSE a : a \in analyses }
                   ELSE analyses \cup
                            {AnalysisRow(runs[r].session_id, runs[r].session_type)}
            /\ sessions' = WithStatus(runs[r].session_id, "completed")
            /\ runs' = RunAt(r, "returned", FALSE)
    /\ TaskOnly

\* process_session: the except block: status "failed"; commit; a commit that
\* raises leaves process_session for the task's own except block
PsExcept(r) ==
    /\ runs[r].task = "process_video_task"
    /\ runs[r].at = "except"
    /\ IF runs[r].inactive
       THEN /\ runs' = RunAt(r, "task_except", TRUE)
            /\ UNCHANGED sessions
       ELSE /\ sessions' = WithStatus(runs[r].session_id, "failed")
            /\ runs' = RunAt(r, "returned", FALSE)
    /\ UNCHANGED analyses
    /\ TaskOnly

\* process_video_task: the except block, on the task's own database session
TaskExcept(r) ==
    /\ runs[r].task = "process_video_task"
    /\ runs[r].at = "task_except"
    /\ sessions' = WithStatus(runs[r].session_id, "failed")
    /\ runs' = RunAt(r, "returned", FALSE)
    /\ UNCHANGED analyses
    /\ TaskOnly

NextTask ==
    \/ \E r \in DOMAIN runs : BgStart(r)
    \/ \E r \in DOMAIN runs : BgSave(r)
    \/ \E r \in DOMAIN runs : BgExcept(r)
    \/ \E r \in DOMAIN runs : PsStart(r)
    \/ \E r \in DOMAIN runs : PsAnalyse(r)
    \/ \E r \in DOMAIN runs : PsCommit(r)
    \/ \E r \in DOMAIN runs : PsExcept(r)
    \/ \E r \in DOMAIN runs : TaskExcept(r)

SpecTask == InitTask /\ [][NextTask]_vars

----------------------------------------------------------------------------
(* Properties of the compliance engine and the recommendation generator,
   under SpecRules *)

\* check_icc_compliance has returned
Checked == pc \in {"rules_recommend", "rules_done"}

ElbowPresent == "elbow_extension" \in DOMAIN metrics
FootPresent == "front_foot_landing" \in DOMAIN metrics

\* the delivery's front foot is flagged as a no-ball
IsNoBall ==
    /\ FootPresent
    /\ "is_no_ball" \in DOMAIN metrics.front_foot_landing
    /\ metrics.front_foot_landing.is_no_ball

ElbowAbove(limit) == ElbowPresent /\ metrics.elbow_extension > limit
ElbowBelow(limit) == ElbowPresent /\ metrics.elbow_extension < limit

HasRule(v, rule, severity) ==
    \E i \in DOMAIN v : v[i].rule = rule /\ v[i].severity = severity

HasHigh(v) == HasRule(v, RuleIllegal, "high")
HasWarning(v) == HasRule(v, RuleWarning, "medium")
HasNoBall(v) == HasRule(v, RuleNoBall, "medium")

ElbowViolations(v) == {i \in DOMAIN v : v[i].rule \in {RuleIllegal, RuleWarning}}

\* C1: the high-severity illegal-action violation is emitted exactly when
\* elbow_extension > 15: 15.01 and 15.1 produce it, 15.0 and 14.9 do not, and
\* no other violation is of high severity.
C1_HighIffAbove15 ==
    Checked =>
        /\ HasHigh(violations) <=> ElbowAbove(1500)
        /\ (ElbowPresent /\ metrics.elbow_extension \in {1501, 1510}) => HasHigh(violations)
        /\ (ElbowPresent /\ metrics.elbow_extension \in {1490, 1500}) =>
               \A i \in DOMAIN violations : violations[i].severity = "medium"

C1_Witness ==
    /\ Checked
    /\ ElbowPresent /\ metrics.elbow_extension = 1501
    /\ HasHigh(violations)

\* C3: at most one elbow violation: high for > 15, medium for (12, 15], none
\* for <= 12 (or no elbow value); high and medium never together.
C3_OneElbowBand ==
    Checked =>
        /\ Cardinality(ElbowViolations(violations)) <= 1
        /\ HasHigh(violations) <=> ElbowAbove(1500)
        /\ HasWarning(violations) <=> (ElbowAbove(1200) /\ ~ElbowAbove(1500))
        /\ ~ElbowAbove(1200) => ElbowViolations(violations) = {}
        /\ ~(HasHigh(violations) /\ HasWarning(violations))

C3_Witness ==
    /\ Checked
    /\ ElbowPresent /\ metrics.elbow_extension = 1510
    /\ Cardinality(ElbowViolations(violations)) = 1

\* C4: the no-ball violation is present iff front_foot_landing.is_no_ball is
\* true, whatever the elbow value, and an elbow violation precedes it.
C4_NoBallIffFlag ==
    Checked =>
        /\ HasNoBall(violations) <=> IsNoBall
        /\ \A i, j \in DOMAIN violations :
               (i \in ElbowViolations(violations) /\ violations[j].rule = RuleNoBall) => i < j

C4_Witness ==
    /\ Checked
    /\ IsNoBall
    /\ ElbowAbove(1200)
    /\ Len(violations) = 2
    /\ violations[2].rule = RuleNoBall

\* C5: with elbow_extension and/or front_foot_landing missing the engine
\* returns normally (no None reaches a comparison), and with both missing the
\* violation list is empty.
C5_MissingIsCompliant ==
    (pc # "rules_check" /\ (~ElbowPresent \/ ~FootPresent)) =>
        /\ ~raised
        /\ pc # "raised"
        /\ (~ElbowPresent /\ ~FootPresent) => violations = << >>

C5_Witness ==
    /\ pc = "rules_recommend"
    /\ ~ElbowPresent
    /\ ~FootPresent
    /\ violations = << >>

\* the conditions of the rules of the recommendation generator
ElbowRuleHolds == ElbowAbove(1200) \/ ElbowBelow(500) \/ ~ElbowPresent
FootRuleHolds == IsNoBall
SwingRuleHolds ==
    "swing_type" \in DOMAIN metrics /\ metrics.swing_type \in {"in_swing", "out_swing"}
SpeedRuleHolds ==
    /\ "estimated_speed" \in DOMAIN metrics
    /\ metrics.estimated_speed > 0
    /\ (metrics.estimated_speed < 1200 \/ metrics.estimated_speed > 1400)

Count(b) == IF b THEN 1 ELSE 0

RulesHolding ==
    Count(ElbowRuleHolds) + Count(FootRuleHolds) + Count(SwingRuleHolds)
    + Count(SpeedRuleHolds)

\* C6: the recommendation list is never empty; when no specific rule fires
\* it holds the generic compliant / consistency statement.
C6_AtLeastOneRecommendation ==
    pc = "rules_done" =>
        /\ Len(recommendations) >= 1
        /\ RulesHolding = 0 => recommendations = << RecCompliant >>

C6_Witness ==
    /\ pc = "rules_done"
    /\ RulesHolding = 0
    /\ recommendations = << RecCompliant >>

\* C7 as stated: each rule whose condition holds appends at most one
\* statement, so the list is no longer than the rules that hold plus the
\* generic statement.
C7_OnePerRule ==
    pc = "rules_done" => Len(recommendations) <= RulesHolding + 1

\* C7 as amended: the elbow band above 12 degrees and the no-ball rule append
\* two statements each, every other rule at most one, so the list is no longer
\* than the rules that hold, plus one for each of those two rules that holds,
\* plus the generic statement when there is no violation.
C7_AtMostTwoPerRule ==
    pc = "rules_done" =>
        Len(recommendations) <=
            RulesHolding + Count(ElbowAbove(1200)) + Count(FootRuleHolds)
            + Count(violations = << >>)

C7_Witness ==
    /\ pc = "rules_done"
    /\ ElbowAbove(1500)
    /\ IsNoBall
    /\ Len(recommendations) = RulesHolding + 2

----------------------------------------------------------------------------
(* Properties of the whole analysis, under Spec *)

\* analyze_bowling_action has returned a report (not the error result)
Reported == pc = "done" /\ "icc_compliance" \in DOMAIN report

\* C2 as stated: a delivery with elbow_extension exactly 15.0 and no no-ball
\* is reported compliant.
C2_FifteenIsCompliant ==
    (Reported /\ ElbowPresent /\ metrics.elbow_extension = 1500 /\ ~IsNoBall) =>
        report.icc_compliance.is_compliant

\* the frames that carry the full set of landmarks, in order
PosedFrames ==
    LET Posed(f) == f.nlm = 33
    IN  SelectSeq(Frames, Posed)

\* the elbow angles of the selected arm over those frames
SelectedArmAngles == [i \in DOMAIN PosedFrames |-> ArmAngle(PosedFrames[i], bowling_arm)]

Scenario8 ==
    /\ Reported
    /\ SelectedArmAngles = << 17000, 17000, 2500, 17000 >>

\* C8: selected-arm elbow angles [170, 170, 25, 170] give elbow_extension =
\* 145, the high-severity violation, is_compliant = false and the
\* straighter-arm recommendation.
C8_EndToEndElbow ==
    Scenario8 =>
        /\ ElbowPresent /\ metrics.elbow_extension = 14500
        /\ report.bowling_metrics.elbow_extension = 14500
        /\ HasHigh(report.icc_compliance.violations)
        /\ ~report.icc_compliance.is_compliant
        /\ \E i \in DOMAIN report.coaching_recommendations :
               report.coaching_recommendations[i] = RecStraighterArm

C8_Witness ==
    /\ Scenario8
    /\ bowling_arm = "left"
    /\ HasHigh(violations)

\* a tracked trajectory of 12 points, 40 px apart, all at height 0.05
Scenario9 ==
    /\ Reported
    /\ Len(ball_trajectory.trajectory) = 12
    /\ \A i \in 1..11 :
           Dist(ball_trajectory.trajectory[i], ball_trajectory.trajectory[i + 1]) = 4000
    /\ \A i \in 6..12 : ball_trajectory.trajectory[i].y < 20

\* C9 as stated: that trajectory gives speed 43.2 km/h, is_yorker = true and
\* is_bouncer = false in the report.
C9_EndToEndYorker ==
    Scenario9 =>
        /\ report.bowling_metrics.speed_kmh = 432
        /\ report.bowling_metrics.is_yorker
        /\ ~report.bowling_metrics.is_bouncer

\* the pose adapter returned nothing usable: no result, no frame list, or a
\* frame list in which no frame has landmarks
NoUsablePose ==
    IF DOMAIN pose_data = {} \/ "frames" \notin DOMAIN pose_data THEN TRUE
    ELSE \A i \in DOMAIN Frames : Frames[i].nlm = 0

\* C14 as stated: without usable pose data the call ends in the error result
\* and no later stage runs: no metrics are extracted and no report with
\* metrics is returned.
C14_NoPoseIsError ==
    NoUsablePose =>
        /\ pc \in {"pose_detection", "done"}
        /\ metrics = EmptyDict
        /\ pc = "done" => DOMAIN report = {"error"}

\* a stage ends and the next one begins
StageChange(from, to) == pc = from /\ pc' = to

----------------------------------------------------------------------------
(* Properties of calculate_ball_speed, under SpecSpeed *)

\* the point list calculate_ball_speed measures has no non-zero displacement
NoDisplacement ==
    LET points == PointsOf(ball_trajectory)
    IN  \A i, j \in DOMAIN points : points[i].x = points[j].x /\ points[i].y = points[j].y

\* C10: the speed is exactly 0 for a missing or empty trajectory, for fewer
\* than 2 points, and for 2 or more points that never move.
C10_ZeroSpeed ==
    pc = "speed_done" =>
        /\ (Falsy(ball_trajectory) \/ Len(PointsOf(ball_trajectory)) < 2) => ball_speed = 0
        /\ (~Falsy(ball_trajectory) /\ NoDisplacement) => ball_speed = 0

C10_Witness ==
    /\ pc = "speed_done"
    /\ ~Falsy(ball_trajectory)
    /\ Len(PointsOf(ball_trajectory)) >= 2
    /\ PointsOf(ball_trajectory)[1].x # 0
    /\ NoDisplacement
    /\ ball_speed = 0

----------------------------------------------------------------------------
(* Properties of classify_line and classify_length, under SpecPitch *)

Classified == pc = "classify_done"

PitchX == ball_trajectory.pitch_landing.x
PitchY == ball_trajectory.pitch_landing.y

\* the zones in the order of their intervals
LineRank(zone) == CASE zone = "off" -> 1 [] zone = "middle" -> 2 [] zone = "leg" -> 3
LengthRank(zone) ==
    CASE zone = "yorker" -> 1 [] zone = "full" -> 2 [] zone = "good" -> 3
      [] zone = "short" -> 4 [] zone = "bouncer" -> 5

\* C11: every coordinate gets exactly one zone: line is off below 0.35,
\* middle on [0.35, 0.65), leg from 0.65; length is yorker below 0.2, full
\* below 0.4, good below 0.6, short below 0.8, bouncer from 0.8; the zone
\* never moves back as the coordinate grows, so each zone is one interval.
C11_ZonesPartition ==
    Classified =>
        /\ delivery.line \in {"off", "middle", "leg"}
        /\ delivery.length \in {"yorker", "full", "good", "short", "bouncer"}
        /\ delivery.line = "off" <=> PitchX < 35
        /\ delivery.line = "middle" <=> (35 <= PitchX /\ PitchX < 65)
        /\ delivery.line = "leg" <=> PitchX >= 65
        /\ delivery.length = "yorker" <=> PitchY < 20
        /\ delivery.length = "full" <=> (20 <= PitchY /\ PitchY < 40)
        /\ delivery.length = "good" <=> (40 <= PitchY /\ PitchY < 60)
        /\ delivery.length = "short" <=> (60 <= PitchY /\ PitchY < 80)
        /\ delivery.length = "bouncer" <=> PitchY >= 80
        /\ \A x2 \in PitchCoords :
               PitchX <= x2 => LineRank(delivery.line) <= LineRank(ClassifyLine(x2))
        /\ \A y2 \in PitchCoords :
               PitchY <= y2 => LengthRank(delivery.length) <= LengthRank(ClassifyLength(y2))

C11_Witness ==
    /\ Classified
    /\ PitchX = 35
    /\ PitchY = 80
    /\ delivery = [line |-> "middle", length |-> "bouncer"]

----------------------------------------------------------------------------
(* Properties of get_line_length_score, under SpecScore *)

\* C12: every call returns a score, also for None and for names that are no
\* zone, which weigh 40; the score is 0.4 * line weight + 0.6 * length
\* weight; between two calls with the same length the one with the larger
\* line weight scores no less, and likewise for the length weight.
C12_WeightedScore ==
    \A r \in scores :
        /\ r.score = 4 * LineWeight(r.line) + 6 * LengthWeight(r.length)
        /\ r.score \in 0..1000
        /\ r.line \in {"wide", NoZone} => LineWeight(r.line) = 40
        /\ r.length \in {"half_volley", NoZone} => LengthWeight(r.length) = 40
        /\ (r.line \in {"wide", NoZone} /\ r.length \in {"half_volley", NoZone})
               => r.score = 400
        /\ \A q \in scores :
               /\ (q.length = r.length /\ LineWeight(q.line) <= LineWeight(r.line))
                      => q.score <= r.score
               /\ (q.line = r.line /\ LengthWeight(q.length) <= LengthWeight(r.length))
                      => q.score <= r.score

C12_Witness ==
    /\ [line |-> NoZone, length |-> "half_volley", score |-> 400] \in scores
    /\ [line |-> "off", length |-> "yorker", score |-> 820] \in scores

----------------------------------------------------------------------------
(* Properties of track_ball_trajectory, under SpecTrack *)

Tracked == pc = "track_done"

\* the frame indices that have at least one detection
DetectedFrames == {video_detections[i].frame : i \in DOMAIN video_detections}

\* detection i is a most confident detection of its frame
MostConfident(i) ==
    \A j \in DOMAIN video_detections :
        video_detections[j].frame = video_detections[i].frame
            => video_detections[j].confidence <= video_detections[i].confidence

\* C13: whatever the order and the number of detections per frame, the
\* trajectory has exactly one point for each frame with a detection and none
\* for any other frame, each point is the box centre of a most confident
\* detection of its frame, and the frame indices strictly increase.
C13_OnePointPerDetectedFrame ==
    Tracked =>
        LET trajectory == ball_trajectory.trajectory
        IN  /\ {trajectory[k].frame : k \in DOMAIN trajectory} = DetectedFrames
            /\ Len(trajectory) = Cardinality(DetectedFrames)
            /\ ball_trajectory.total_frames_with_ball = Cardinality(DetectedFrames)
            /\ \A k \in 1..(Len(trajectory) - 1) :
                   trajectory[k].frame < trajectory[k + 1].frame
            /\ \A k \in DOMAIN trajectory :
                   \E i \in DOMAIN video_detections :
                       /\ video_detections[i].frame = trajectory[k].frame
                       /\ MostConfident(i)
                       /\ trajectory[k].confidence = video_detections[i].confidence
                       /\ 2 * trajectory[k].x =
                              video_detections[i].bbox[1] + video_detections[i].bbox[3]
                       /\ 2 * trajectory[k].y =
                              video_detections[i].bbox[2] + video_detections[i].bbox[4]

\* frame 3 detected before frame 0, and frame 0 twice, the less confident first
C13_Witness ==
    /\ Tracked
    /\ Len(video_detections) = 3
    /\ video_detections[1].frame = 3
    /\ video_detections[2].frame = 0 /\ video_detections[2].confidence = 50
    /\ video_detections[3].frame = 0 /\ video_detections[3].confidence = 90
    /\ video_detections[2].bbox # video_detections[3].bbox
    /\ Len(ball_trajectory.trajectory) = 2
    /\ ball_trajectory.trajectory[1].frame = 0
    /\ ball_trajectory.trajectory[1].confidence = 90

----------------------------------------------------------------------------
(* Properties of _save_delivery_to_db, under SpecSaving *)

\* C16 as stated: whatever the interleaving of the calls, no two rows of a
\* session carry the same delivery_number.
C16_UniqueDeliveryNumbers ==
    \A a, b \in deliveries :
        (a.session_id = b.session_id /\ a.delivery_number = b.delivery_number) => a = b

----------------------------------------------------------------------------
(* Properties of detect_bowling_arm, under SpecArm *)

\* the frames that carry angle metrics
FramesWithAngles == {i \in DOMAIN Frames : HasMetrics(Frames[i])}

\* largest minus smallest elbow angle of one arm over those frames
RightRange ==
    LET a == {Frames[i].right_elbow : i \in FramesWithAngles}
    IN  IF a = {} THEN 0 ELSE SetMax(a) - SetMin(a)
LeftRange ==
    LET a == {Frames[i].left_elbow : i \in FramesWithAngles}
    IN  IF a = {} THEN 0 ELSE SetMax(a) - SetMin(a)

\* C18 as stated: the arm with the larger range is selected when its range is
\* at least 1.5 times the other arm's range, and 'right' is returned in every
\* other case.
C18_AtLeastHalfLarger ==
    pc = "arm_done" =>
        /\ (LeftRange > RightRange /\ 2 * LeftRange >= 3 * RightRange)
               => bowling_arm = "left"
        /\ (RightRange > LeftRange /\ 2 * RightRange >= 3 * LeftRange)
               => bowling_arm = "right"
        /\ ~(LeftRange > RightRange /\ 2 * LeftRange >= 3 * RightRange)
               => bowling_arm = "right"

\* C18 as amended: the arm with the larger range is selected when its range is
\* more than 1.5 times the other arm's range; 'right' is returned in every other
\* case, a range of exactly 1.5 times the other and no frame with angle metrics
\* included.
C18_MoreThanHalfLarger ==
    pc = "arm_done" =>
        /\ bowling_arm \in {"left", "right"}
        /\ bowling_arm = "left" <=> 2 * LeftRange > 3 * RightRange
        /\ 2 * RightRange > 3 * LeftRange => bowling_arm = "right"
        /\ FramesWithAngles = {} => bowling_arm = "right"

\* the left range is exactly 1.5 times the right range
C18_Witness ==
    /\ pc = "arm_done"
    /\ LeftRange = 3000
    /\ RightRange = 2000
    /\ bowling_arm = "right"

----------------------------------------------------------------------------
(* Properties of extract_bowling_metrics within the analysis, under SpecGeo *)

\* extract_bowling_metrics has returned
Extracted ==
    pc \in {"swing_type", "compliance", "performance_score", "recommendations",
            "report"} \/ Reported

\* the frames with the full set of landmarks
FullFrames == {i \in DOMAIN Frames : Frames[i].nlm = 33}

\* the selected arm's elbow angle in frame i
SelectedAngle(i) == ArmAngle(Frames[i], bowling_arm)

\* C19: with at least one frame with full landmarks, elbow_extension is the
\* largest minus the smallest selected-arm elbow angle over those frames, so
\* it lies in [0, 180] and min_elbow_angle <= max_elbow_angle; with no such
\* frame the field is absent and the report shows 0.
C19_ExtensionIsMaxMinusMin ==
    Extracted =>
        /\ FullFrames # {} =>
               /\ \E hi, lo \in FullFrames :
                      /\ \A k \in FullFrames :
                             /\ SelectedAngle(lo) <= SelectedAngle(k)
                             /\ SelectedAngle(k) <= SelectedAngle(hi)
                      /\ metrics.max_elbow_angle = SelectedAngle(hi)
                      /\ metrics.min_elbow_angle = SelectedAngle(lo)
                      /\ metrics.elbow_extension = SelectedAngle(hi) - SelectedAngle(lo)
               /\ 0 <= metrics.elbow_extension /\ metrics.elbow_extension <= 18000
               /\ metrics.min_elbow_angle <= metrics.max_elbow_angle
               /\ Reported => report.bowling_metrics.elbow_extension = metrics.elbow_extension
        /\ FullFrames = {} =>
               /\ "elbow_extension" \notin DOMAIN metrics
               /\ Reported => report.bowling_metrics.elbow_extension = 0

\* the smallest angle is neither in the first frame nor in the last
C19_Witness ==
    /\ Reported
    /\ Len(Frames) = 4
    /\ FullFrames = {1, 3, 4}
    /\ SelectedAngle(1) = 9000
    /\ SelectedAngle(3) = 2657
    /\ SelectedAngle(4) = 18000
    /\ report.bowling_metrics.elbow_extension = 15343

\* the frames in which the selected arm's elbow angle is below 30 degrees
Below30 == {i \in FullFrames : SelectedAngle(i) < 3000}

\* the position dict of a landmark
PositionOf(lm) == [x |-> lm.x, y |-> lm.y, z |-> lm.z]

----------------------------------------------------------------------------
(* Properties of the front-foot landing of extract_bowling_metrics, under
   SpecFoot *)

FootDone == pc = "foot_done"

\* the tracked ankle (the one on the bowling arm's side) of frame i
FootAnkle(i) == ArmAnkle(Frames[i], bowling_arm)

\* frames[i] is the frame of index i - 1 in the source
LateFrom(i) == 10 * (i - 1) >= 6 * Len(Frames)
LateAfter(i) == 10 * (i - 1) > 6 * Len(Frames)

\* the landing recorded in the metrics is the candidate of least ankle height,
\* and the no-ball flag tells whether its ankle_x exceeds 0.95
LandingIsLowestOf(candidates) ==
    /\ candidates # {} =>
           /\ "front_foot_landing" \in DOMAIN metrics
           /\ LET l == metrics.front_foot_landing.frame + 1
              IN  /\ l \in candidates
                  /\ \A k \in candidates : FootAnkle(l).y <= FootAnkle(k).y
                  /\ metrics.front_foot_landing.is_no_ball = (FootAnkle(l).x > 95)
    /\ candidates = {} => "front_foot_landing" \notin DOMAIN metrics

\* C21 as stated: the candidates are the frames with landmarks of index
\* i >= 0.6 * n, the landing is the one of minimal ankle height among them and
\* is_no_ball holds exactly when its ankle_x is above 0.95.
C21_ClaimedFromSixTenths ==
    FootDone => LandingIsLowestOf({i \in FullFrames : LateFrom(i)})

\* C21: the candidates are the frames with landmarks of index i > 0.6 * n
\* (a frame at exactly 0.6 * n is not one); the landing is the candidate of
\* minimal ankle height and is_no_ball holds exactly when its ankle_x is
\* above 0.95.
C21_LandingAfterSixTenths ==
    FootDone => LandingIsLowestOf({i \in FullFrames : LateAfter(i)})

\* five frames: the frame of index 3 = 0.6 * 5 has the lower ankle, yet the
\* landing is the frame of index 4
C21_Witness ==
    /\ FootDone
    /\ Len(Frames) = 5
    /\ FullFrames = 1..5
    /\ FootAnkle(4).y < FootAnkle(5).y
    /\ metrics.front_foot_landing.frame = 4
    /\ metrics.front_foot_landing.is_no_ball

----------------------------------------------------------------------------
(* Properties of the ball-type classification within the analysis, under Spec *)

\* the points of the tracked trajectory
TrackedPoints == PointsOf(ball_trajectory)

\* the number of ball-type flags that are set
FlagsSet(bt) ==
    (IF bt.is_yorker THEN 1 ELSE 0) + (IF bt.is_bouncer THEN 1 ELSE 0)
        + (IF bt.is_full_toss THEN 1 ELSE 0)

\* C22 as stated: at most one of is_yorker, is_bouncer, is_full_toss is set;
\* with at least 10 trajectory points and m the minimum height after the first
\* 5, yorker iff m < 0.2, bouncer iff m > 0.8, full toss iff 0.4 < m <= 0.8;
\* with fewer than 10 points all three flags are false.
C22_OneTypeByMinimumHeight ==
    Reported =>
        /\ FlagsSet(ball_type) <= 1
        /\ Len(TrackedPoints) >= 10 =>
               LET m == MinHeightAfterSkip(TrackedPoints)
               IN  /\ ball_type.is_yorker <=> m < 20
                   /\ ball_type.is_bouncer <=> m > 80
                   /\ ball_type.is_full_toss <=> (40 < m /\ m <= 80)
        /\ Len(TrackedPoints) < 10 => ball_type = NoBallType

----------------------------------------------------------------------------
(* Properties of detect_batting_phases, under SpecPhases *)

PhasesDone == pc = "phases_done"

PhaseNames == <<"stance", "backlift", "shot_execution", "follow_through">>

\* the frame indices listed under the k-th phase
PhaseSet(k) == {phases[PhaseNames[k]][j] : j \in DOMAIN phases[PhaseNames[k]]}

\* the phases that list frame index i
PhasesOfIndex(i) == {k \in 1..4 : i \in PhaseSet(k)}

\* C23: every frame index 0..n-1 is listed once, under exactly one of the four
\* phases: stance for i < 0.3n, backlift for i < 0.6n, shot_execution for
\* i < 0.9n, follow_through otherwise; the phase never goes backwards as the
\* index grows, and the four lists together hold exactly the frame indices.
C23_PhasesPartitionInOrder ==
    PhasesDone =>
        LET n == Len(Frames)
        IN  /\ DOMAIN phases = {PhaseNames[k] : k \in 1..4}
            /\ \A i \in 0..(n - 1) :
                   /\ Cardinality(PhasesOfIndex(i)) = 1
                   /\ i \in PhaseSet(1) <=> 10 * i < 3 * n
                   /\ i \in PhaseSet(2) <=> (10 * i >= 3 * n /\ 10 * i < 6 * n)
                   /\ i \in PhaseSet(3) <=> (10 * i >= 6 * n /\ 10 * i < 9 * n)
                   /\ i \in PhaseSet(4) <=> 10 * i >= 9 * n
            /\ \A i, j \in 0..(n - 1) :
                   i <= j => \A a \in PhasesOfIndex(i), b \in PhasesOfIndex(j) : a <= b
            /\ UNION {PhaseSet(k) : k \in 1..4} = 0..(n - 1)
            /\ \A k \in 1..4 : Len(phases[PhaseNames[k]]) = Cardinality(PhaseSet(k))

\* ten frames: the indices 3, 6 and 9 sit on the boundaries and open the next
\* phase
C23_Witness ==
    /\ PhasesDone
    /\ Len(Frames) = 10
    /\ phases.stance = <<0, 1, 2>>
    /\ phases.backlift = <<3, 4, 5>>
    /\ phases.shot_execution = <<6, 7, 8>>
    /\ phases.follow_through = <<9>>

----------------------------------------------------------------------------
(* Properties of the speed recommendation within the analysis, under Spec *)

\* the report's recommendations contain the statement
Recommended(statement) ==
    \E i \in DOMAIN report.coaching_recommendations :
        report.coaching_recommendations[i] = statement

\* C24 as stated: whenever the measured ball speed is positive, the speed-band
\* rule is applied to it: below 120 km/h the report recommends generating more
\* pace, above 140 km/h it commends the excellent pace.
C24_PaceRuleOnMeasuredSpeed ==
    (Reported /\ report.bowling_metrics.speed_kmh > 0) =>
        /\ report.bowling_metrics.speed_kmh < 1200 => Recommended(RecMorePace)
        /\ report.bowling_metrics.speed_kmh > 1400 => Recommended(RecExcellentPace)

----------------------------------------------------------------------------
(* Properties of calculate_spin_rate, under SpecSpin *)

SpinDone == pc = "spin_done"

\* the centre of the i-th detection
CentreOf(i) ==
    [x |-> CenterX(ball_detections[i].bbox), y |-> CenterY(ball_detections[i].bbox)]

NumCentres == Len(ball_detections)

\* the side of the line from the first to the last centre that centre i lies on
SideOf(i) ==
    LET first == CentreOf(1)
        last == CentreOf(NumCentres)
    IN  Sign((CentreOf(i).y - first.y) * (last.x - first.x)
               - (CentreOf(i).x - first.x) * (last.y - first.y))

\* the sign changes of the lateral-deviation series
SignChanges == Cardinality({i \in 1..(NumCentres - 1) : SideOf(i + 1) # SideOf(i)})

\* no spin can be estimated: too few centres, or no travel
NoSpinEstimate == NumCentres < 5 \/ CentreOf(1) = CentreOf(NumCentres)

\* C25 as stated: 0 with fewer than 5 centres or coinciding first and last
\* centres; otherwise exactly (zero_crossings / 2) / (centres / fps) * 60; never
\* negative.
C25_ExactlyTheFormula ==
    SpinDone =>
        /\ NoSpinEstimate => ball_spin = 0
        /\ ~NoSpinEstimate => ball_spin * NumCentres = SignChanges * 300 * FPS
        /\ ball_spin >= 0

\* C25: 0 with fewer than 5 centres or coinciding first and last centres;
\* otherwise (zero_crossings / 2) / (centres / fps) * 60 rounded to one decimal
\* place (no further than 0.05 from it); never negative.
C25_FormulaToOneDecimal ==
    SpinDone =>
        /\ NoSpinEstimate => ball_spin = 0
        /\ ~NoSpinEstimate =>
               2 * Abs(ball_spin * NumCentres - SignChanges * 300 * FPS) <= NumCentres
        /\ ball_spin >= 0

\* seven centres off the line between the ends on one side: two sign changes,
\* 1 / (7 / 30) * 60 = 257.142... rpm, returned as 257.1
C25_Witness ==
    /\ SpinDone
    /\ NumCentres = 7
    /\ SignChanges = 2
    /\ ball_spin = 2571

----------------------------------------------------------------------------
(* Properties of wicket_probability, under SpecWicket *)

WicketDone == pc = "wicket_done"

\* every field of the delivery is given
FullyGiven ==
    /\ ZoneGiven(delivery.line) /\ ZoneGiven(delivery.length)
    /\ delivery.speed_kmh # None /\ delivery.swing_angle # None /\ delivery.spin_rpm # None

\* 0.4 * pitch_score + min(speed / 150 * 30, 30) + min(|swing| / 10 * 20, 20)
\* + min(spin / 1000 * 20, 20), capped at 100, in thousandths
CappedSum(pitch_score, speed, swing, spin) ==
    LET speed_term == IF 20 * speed < 30000 THEN 20 * speed ELSE 30000
        swing_term == IF 20 * Abs(swing) < 20000 THEN 20 * Abs(swing) ELSE 20000
        spin_term == IF 2 * spin < 20000 THEN 2 * spin ELSE 20000
        sum == 40 * pitch_score + speed_term + swing_term + spin_term
    IN  IF sum < 100000 THEN sum ELSE 100000

\* C26 as stated: the result is the capped sum of the clamped terms of the
\* delivery's pitch score, speed, swing and spin, and lies in [0, 100] whenever
\* speed and spin are not negative.
C26_CappedSumOfDeliveryValues ==
    (WicketDone /\ FullyGiven) =>
        /\ probability = CappedSum(LineWeight(delivery.line) * 4
                                       + LengthWeight(delivery.length) * 6,
                                   delivery.speed_kmh, delivery.swing_angle,
                                   delivery.spin_rpm)
        /\ (delivery.speed_kmh >= 0 /\ delivery.spin_rpm >= 0) =>
               (0 <= probability /\ probability <= 100000)

\* the values the terms are computed from: 120 km/h for a speed that is
\* missing or 0, 30 for the pitch score when line or length is missing, 0 for a
\* missing swing or spin
ScoredPitch ==
    IF ZoneGiven(delivery.line) /\ ZoneGiven(delivery.length)
    THEN LineWeight(delivery.line) * 4 + LengthWeight(delivery.length) * 6
    ELSE 300
ScoredSpeed == IF delivery.speed_kmh \in {None, 0} THEN 1200 ELSE delivery.speed_kmh
ScoredSwing == IF delivery.swing_angle = None THEN 0 ELSE delivery.swing_angle
ScoredSpin == IF delivery.spin_rpm = None THEN 0 ELSE delivery.spin_rpm

\* C26: the result is the capped sum of the clamped terms, a speed that is
\* missing or 0 being scored as 120 km/h (a missing line or length as a pitch
\* score of 30, a missing swing or spin as 0), and lies in [0, 100] whenever
\* speed and spin are not negative.
C26_CappedSumWithDefaultSpeed ==
    WicketDone =>
        /\ probability = CappedSum(ScoredPitch, ScoredSpeed, ScoredSwing, ScoredSpin)
        /\ (ScoredSpeed >= 0 /\ ScoredSpin >= 0) =>
               (0 <= probability /\ probability <= 100000)

\* an off-stump yorker with no speed measured, swing -12 degrees, 1500 rpm:
\* 0.4 * 82 + 24 + 20 + 20 = 96.8
C26_Witness ==
    /\ WicketDone
    /\ delivery = [line |-> "off", length |-> "yorker", speed_kmh |-> 0,
                   swing_angle |-> 0 - 1200, spin_rpm |-> 15000]
    /\ probability = 96800

----------------------------------------------------------------------------
(* Properties of calculate_performance_score, under SpecPerformance *)

PerformanceDone == pc = "performance_done"

\* 150 times min(speed / 150 * 40, 40) + 0.4 * accuracy + min(spin / 1000 * 20, 20)
\* capped at 100, in tenths
WeightedSum150(speed, accuracy, spin) ==
    LET speed_term == IF 40 * speed < 60000 THEN 40 * speed ELSE 60000
        spin_term == IF 3 * spin < 30000 THEN 3 * spin ELSE 30000
        sum == speed_term + 60 * accuracy + spin_term
    IN  IF sum < 150000 THEN sum ELSE 150000

\* the score lies in [0, 100] and no metrics with speed, accuracy and spin at
\* least as large score lower
InRangeAndMonotone ==
    /\ 0 <= performance_score /\ performance_score <= 1000
    /\ \A m2 \in PerformanceMetrics :
           (/\ metrics.speed_kmh <= m2.speed_kmh
            /\ metrics.accuracy_score <= m2.accuracy_score
            /\ metrics.spin_rpm <= m2.spin_rpm)
               => performance_score <= CalculatePerformanceScore(m2)

\* C27 as stated: the score is the weighted sum capped at 100, lies in
\* [0, 100] for speed >= 0, spin >= 0 and accuracy in [0, 100], and is
\* non-decreasing in each of speed, accuracy and spin.
C27_ExactlyTheWeightedSum ==
    PerformanceDone =>
        /\ 150 * performance_score =
               WeightedSum150(metrics.speed_kmh, metrics.accuracy_score, metrics.spin_rpm)
        /\ InRangeAndMonotone

\* C27: the score is the weighted sum capped at 100 and rounded to one decimal
\* place (no further than 0.05 from it), lies in [0, 100] for speed >= 0,
\* spin >= 0 and accuracy in [0, 100], and is non-decreasing in each of speed,
\* accuracy and spin.
C27_WeightedSumToOneDecimal ==
    PerformanceDone =>
        /\ 2 * Abs(150 * performance_score
                     - WeightedSum150(metrics.speed_kmh, metrics.accuracy_score,
                                      metrics.spin_rpm)) <= 150
        /\ InRangeAndMonotone

\* 43.2 km/h, accuracy 75, 257.1 rpm: 11.52 + 30 + 5.142 = 46.662, returned as 46.7
C27_Witness ==
    /\ PerformanceDone
    /\ metrics = [speed_kmh |-> 432, accuracy_score |-> 750, spin_rpm |-> 2571]
    /\ performance_score = 467

----------------------------------------------------------------------------
(* Properties of the report's compliance block, under Spec *)

\* C28: in every report, is_compliant = true implies both statuses are
\* "Legal"; an "Illegal" elbow status or a "No-ball" front-foot status implies
\* is_compliant = false and the matching violation in the list (the
\* high-severity illegal-action violation, the no-ball violation).
C28_ComplianceBlockConsistent ==
    Reported =>
        LET c == report.icc_compliance
        IN  /\ c.is_compliant =>
                   (c.elbow_extension_status = "Legal" /\ c.front_foot_status = "Legal")
            /\ c.elbow_extension_status = "Illegal" =>
                   (~c.is_compliant /\ HasHigh(c.violations))
            /\ c.front_foot_status = "No-ball" =>
                   (~c.is_compliant /\ HasNoBall(c.violations))
            /\ c.elbow_extension_status \in {"Legal", "Illegal"}
            /\ c.front_foot_status \in {"Legal", "No-ball"}

\* a report that is illegal on both counts, listing both violations
C28_Witness ==
    /\ Reported
    /\ report.icc_compliance.elbow_extension_status = "Illegal"
    /\ report.icc_compliance.front_foot_status = "No-ball"
    /\ ~report.icc_compliance.is_compliant
    /\ Len(report.icc_compliance.violations) = 2

----------------------------------------------------------------------------
(* Properties of the background processing of a session. *)

RunEnded(r) == runs[r].at \in {"returned", "raised"}

RunOnStored(r) == runs[r].session_id \in DOMAIN sessions

\* no other run is at work on the session of run r
NoOtherAtWork(r) ==
    \A o \in DOMAIN runs :
        (o # r /\ runs[o].session_id = runs[r].session_id)
            => (RunEnded(o) \/ runs[o].at = "start")

\* C29: for a stored session, a run first sets the status to "processing" and
\* ends with the status "completed" or "failed": once the run has ended and no
\* other run is at work on the session, the status is not "processing"
C29_EndsCompletedOrFailed ==
    \A r \in DOMAIN runs :
        RunOnStored(r) =>
            /\ (runs[r].at # "start")
                   => sessions[runs[r].session_id].status
                          \in {"processing", "completed", "failed"}
            /\ (RunEnded(r) /\ NoOtherAtWork(r))
                   => sessions[runs[r].session_id].status \in {"completed", "failed"}

AnalysesOf(session_id) == {a \in analyses : a.session_id = session_id}

====
